---------------------------- MODULE Spec2Model ----------------------------
(***************************************************************************)
(* Provider dispatch and stream normalisation of the chat UI:              *)
(*   src/src/services/apiService.ts  sendChatRequest, sendClaudeRequest,   *)
(*       sendOpenAICompatibleRequest, sendFlowiseRequest,                  *)
(*       streamChatResponse                                                *)
(*   src/src/lib/utils.ts            getProviderFromEnv,                   *)
(*       getApiUrlForProvider, getApiKeyForProvider                        *)
(*                                                                         *)
(* Text is a sequence of characters, each character a string: an ASCII     *)
(* character is itself ("d"), any other code point n is "U+n".  Bytes are  *)
(* the integers 0..255.  A JavaScript value is a tagged record.            *)
(***************************************************************************)
EXTENDS Integers, Sequences, FiniteSets, TLC

(***************************************************************************)
(* Characters and strings                                                  *)
(***************************************************************************)

\* The character of a code point.  The printable ASCII characters stand in
\* code point order, 32..95 and 97..126 (a string literal cannot hold code
\* point 96, which is written "U+96").
CharOf(cp) ==
  LET low == " !\"#$%&'()*+,-./0123456789:;<=>?@ABCDEFGHIJKLMNOPQRSTUVWXYZ[\\]^_"
      high == "abcdefghijklmnopqrstuvwxyz{|}~"
  IN IF cp >= 32 /\ cp <= 95 THEN SubSeq(low, cp - 31, cp - 31)
     ELSE IF cp >= 97 /\ cp <= 126 THEN SubSeq(high, cp - 96, cp - 96)
     ELSE IF cp = 10 THEN "\n"
     ELSE IF cp = 13 THEN "\r"
     ELSE IF cp = 9 THEN "\t"
     ELSE "U+" \o ToString(cp)

DigitVal(d) == CHOOSE n \in 0..9 : ToString(n) = d

RECURSIVE DecimalVal(_, _, _)
DecimalVal(s, i, acc) ==
  IF i > Len(s) THEN acc
  ELSE DecimalVal(s, i + 1, acc * 10 + DigitVal(SubSeq(s, i, i)))

\* The code point of a character.
CodeOf(c) ==
  IF c = "\n" THEN 10
  ELSE IF c = "\r" THEN 13
  ELSE IF c = "\t" THEN 9
  ELSE IF Len(c) = 1 THEN CHOOSE cp \in 32..126 : CharOf(cp) = c
  ELSE DecimalVal(c, 3, 0)

\* A string literal as text.
Chars(s) == [i \in 1..Len(s) |-> SubSeq(s, i, i)]

\* The code points of ECMAScript's WhiteSpace and LineTerminator: TAB, LF,
\* VT, FF, CR, SP, NBSP, the other space separators (Zs), LS, PS and ZWNBSP.
WhiteSpaceCodes ==
  {9, 10, 11, 12, 13, 32, 160, 5760, 8232, 8233, 8239, 8287, 12288, 65279}
    \cup (8192..8202)

\* String.prototype.trim strips the characters of WhiteSpaceCodes.
IsSpace(c) ==
  \/ c \in {" ", "\t", "\n", "\r"}
  \/ Len(c) > 1 /\ CodeOf(c) \in WhiteSpaceCodes

RECURSIVE TrimStart(_)
TrimStart(s) ==
  IF s # <<>> /\ IsSpace(Head(s)) THEN TrimStart(Tail(s)) ELSE s

RECURSIVE TrimEnd(_)
TrimEnd(s) ==
  IF s # <<>> /\ IsSpace(s[Len(s)]) THEN TrimEnd(SubSeq(s, 1, Len(s) - 1)) ELSE s

Trim(s) == TrimEnd(TrimStart(s))

\* String.prototype.startsWith
StartsWith(s, p) == Len(s) >= Len(p) /\ SubSeq(s, 1, Len(p)) = p

\* String.prototype.includes
Includes(s, p) ==
  \E i \in 1..(Len(s) - Len(p) + 1) : SubSeq(s, i, i + Len(p) - 1) = p

\* String.prototype.slice(n)
Slice(s, n) == SubSeq(s, n + 1, Len(s))

\* String.prototype.split('\n'): the pieces between the line feeds, always
\* at least one.
SplitLines(s) ==
  LET nl == {i \in 1..Len(s) : s[i] = "\n"}
      n == Cardinality(nl)
      \* the k-th line feed; 0 before the text, Len(s) + 1 after it
      Pos(k) == IF k = 0 THEN 0
                ELSE IF k = n + 1 THEN Len(s) + 1
                ELSE CHOOSE p \in nl : Cardinality({q \in nl : q <= p}) = k
  IN [k \in 1..(n + 1) |-> SubSeq(s, Pos(k - 1) + 1, Pos(k) - 1)]

(***************************************************************************)
(* UTF-8: TextEncoder.encode and TextDecoder.decode(value, {stream: true}) *)
(***************************************************************************)

\* A string of the program is a sequence of UTF-16 code units; the model
\* holds its code points, so a high surrogate is never followed by a low
\* one: the two are one character.  A surrogate on its own is a character.
IsHighSurrogate(c) == Len(c) = 7 /\ CodeOf(c) \in 55296..56319
IsLowSurrogate(c) == Len(c) = 7 /\ CodeOf(c) \in 56320..57343

\* The code point of a surrogate pair.
PairOf(hi, lo) == CharOf(65536 + (CodeOf(hi) - 55296) * 1024 + (CodeOf(lo) - 56320))

\* s followed by the code unit c.
AppendUnit(s, c) ==
  IF s # <<>> /\ IsLowSurrogate(c) /\ IsHighSurrogate(s[Len(s)])
  THEN [s EXCEPT ![Len(s)] = PairOf(s[Len(s)], c)]
  ELSE Append(s, c)

\* The code units of s as code points.
JoinSurrogates(s) ==
  LET RECURSIVE JoinRange(_, _)
      JoinRange(lo, hi) ==
        IF lo > hi THEN <<>>
        ELSE IF lo = hi THEN <<s[lo]>>
        ELSE LET mid == (lo + hi) \div 2
                 left == JoinRange(lo, mid)
                 right == JoinRange(mid + 1, hi)
             IN IF IsHighSurrogate(left[Len(left)]) /\ IsLowSurrogate(right[1])
                THEN SubSeq(left, 1, Len(left) - 1)
                       \o <<PairOf(left[Len(left)], right[1])>> \o Tail(right)
                ELSE left \o right
  IN IF \E i \in 1..(Len(s) - 1) : IsHighSurrogate(s[i]) /\ IsLowSurrogate(s[i + 1])
     THEN JoinRange(1, Len(s))
     ELSE s

\* The UTF-8 bytes of one character; a surrogate on its own is encoded as
\* U+FFFD.
EncodeChar(c) ==
  LET cp == CodeOf(c) IN
  IF cp < 128 THEN <<cp>>
  ELSE IF cp < 2048 THEN <<192 + (cp \div 64), 128 + (cp % 64)>>
  ELSE IF cp >= 55296 /\ cp <= 57343 THEN <<239, 191, 189>>
  ELSE IF cp < 65536
    THEN <<224 + (cp \div 4096), 128 + ((cp \div 64) % 64), 128 + (cp % 64)>>
  ELSE <<240 + (cp \div 262144), 128 + ((cp \div 4096) % 64),
         128 + ((cp \div 64) % 64), 128 + (cp % 64)>>

\* encoder.encode(s): the bytes of its characters, in order.
Encode(s) ==
  LET t == JoinSurrogates(s)
      RECURSIVE EncodeRange(_, _)
      EncodeRange(lo, hi) ==
        IF lo > hi THEN <<>>
        ELSE IF lo = hi THEN EncodeChar(t[lo])
        ELSE LET mid == (lo + hi) \div 2
             IN EncodeRange(lo, mid) \o EncodeRange(mid + 1, hi)
  IN EncodeRange(1, Len(t))

\* The decoder's state between two calls: the continuation bytes still
\* needed, the code point collected so far, the range the next continuation
\* byte must lie in, and whether the stream's first character has been seen.
DecoderInit == [need |-> 0, cp |-> 0, lower |-> 128, upper |-> 191, bomSeen |-> FALSE]

\* A byte met with no sequence open: a character, a lead byte or an error,
\* which gives U+FFFD.
DecodeLead(b) ==
  IF b < 128 THEN [need |-> 0, cp |-> 0, lower |-> 128, upper |-> 191, text |-> <<CharOf(b)>>]
  ELSE IF b >= 194 /\ b <= 223
    THEN [need |-> 1, cp |-> b - 192, lower |-> 128, upper |-> 191, text |-> <<>>]
  ELSE IF b >= 224 /\ b <= 239
    THEN [need |-> 2, cp |-> b - 224,
          lower |-> IF b = 224 THEN 160 ELSE 128,
          upper |-> IF b = 237 THEN 159 ELSE 191, text |-> <<>>]
  ELSE IF b >= 240 /\ b <= 244
    THEN [need |-> 3, cp |-> b - 240,
          lower |-> IF b = 240 THEN 144 ELSE 128,
          upper |-> IF b = 244 THEN 143 ELSE 191, text |-> <<>>]
  ELSE [need |-> 0, cp |-> 0, lower |-> 128, upper |-> 191, text |-> <<CharOf(65533)>>]

\* One byte through the decoder: the new state and the text it emits.  A
\* byte outside the range ends the open sequence with U+FFFD and is decoded
\* again with no sequence open.  The stream's first character is dropped
\* when it is the byte order mark U+FEFF.
DecodeByte(st, b) ==
  LET r == IF st.need = 0 THEN DecodeLead(b)
           ELSE IF b >= st.lower /\ b <= st.upper THEN
             LET cp == st.cp * 64 + (b - 128) IN
             IF st.need = 1
             THEN [need |-> 0, cp |-> 0, lower |-> 128, upper |-> 191,
                   text |-> <<CharOf(cp)>>]
             ELSE [need |-> st.need - 1, cp |-> cp, lower |-> 128, upper |-> 191,
                   text |-> <<>>]
           ELSE [DecodeLead(b) EXCEPT !.text = <<CharOf(65533)>> \o @]
      text == IF ~st.bomSeen /\ r.text # <<>> /\ Head(r.text) = CharOf(65279)
              THEN Tail(r.text) ELSE r.text
  IN [st |-> [need |-> r.need, cp |-> r.cp, lower |-> r.lower, upper |-> r.upper,
              bomSeen |-> st.bomSeen \/ r.text # <<>>],
      text |-> text]

\* decoder.decode(value, { stream: true }): an incomplete sequence at the
\* end of the chunk stays in the decoder.
\* The bytes lo..hi through the decoder, in order.
RECURSIVE DecodeRange(_, _, _, _)
DecodeRange(st, bytes, lo, hi) ==
  IF lo > hi THEN [st |-> st, text |-> <<>>]
  ELSE IF lo = hi THEN DecodeByte(st, bytes[lo])
  ELSE LET mid == (lo + hi) \div 2
           left == DecodeRange(st, bytes, lo, mid)
       IN \* the left half is decoded before the right half starts
          IF left.st.need >= 0
          THEN LET right == DecodeRange(left.st, bytes, mid + 1, hi)
               IN [st |-> right.st, text |-> left.text \o right.text]
          ELSE left

Decode(st, bytes) == DecodeRange(st, bytes, 1, Len(bytes))

(***************************************************************************)
(* JavaScript values, JSON.parse and JSON.stringify                        *)
(***************************************************************************)

Undefined == [t |-> "undefined"]
Null == [t |-> "null"]
Bool(b) == [t |-> "bool", v |-> b]
\* A Number is held as the text Number::toString gives for it: "200", "1.5",
\* "1e+21", "Infinity".
NumberOf(text) == [t |-> "num", v |-> text]
\* The Number of an integer.
Num(n) == NumberOf(Chars(ToString(n)))
Str(s) == [t |-> "str", v |-> s]
Arr(a) == [t |-> "arr", v |-> a]
\* An object: its properties in enumeration order, each [k |-> name, v |-> value].
Obj(ps) == [t |-> "obj", v |-> ps]

\* JavaScript's ToBoolean.
Truthy(v) ==
  CASE v.t = "undefined" -> FALSE
    [] v.t = "null" -> FALSE
    [] v.t = "bool" -> v.v
    [] v.t = "num" -> v.v # <<"0">>
    [] v.t = "str" -> v.v # <<>>
    [] OTHER -> TRUE

\* v == null || v === undefined
Nullish(v) == v.t \in {"undefined", "null"}

\* The value of property k of an object's property list: the last one wins.
RECURSIVE Lookup(_, _, _)
Lookup(ps, k, i) ==
  IF i = 0 THEN Undefined
  ELSE IF ps[i].k = k THEN ps[i].v
  ELSE Lookup(ps, k, i - 1)

\* v.k for a named property k of a value that is neither null nor undefined;
\* only an object built by JSON.parse has one.
Prop(v, k) == IF v.t = "obj" THEN Lookup(v.v, k, Len(v.v)) ELSE Undefined

\* v[0]; of a string, its first code unit.
Index0(v) ==
  LET FirstUnit(c) == IF Len(c) > 1 /\ CodeOf(c) >= 65536
                      THEN CharOf(55296 + ((CodeOf(c) - 65536) \div 1024))
                      ELSE c
  IN CASE v.t = "arr" -> (IF v.v = <<>> THEN Undefined ELSE v.v[1])
       [] v.t = "str" -> (IF v.v = <<>> THEN Undefined ELSE Str(<<FirstUnit(v.v[1])>>))
       [] v.t = "obj" -> Lookup(v.v, <<"0">>, Len(v.v))
       [] OTHER -> Undefined

\* v?.k
OptProp(v, k) == IF Nullish(v) THEN Undefined ELSE Prop(v, k)

(***************************************************************************)
(* Natural numbers of any size, for the value of a JSON number: limbs of   *)
(* four decimal digits, the least significant first, no zero limb on top.  *)
(***************************************************************************)

Limb == 10000

BigNorm(a) ==
  LET nz == {i \in DOMAIN a : a[i] # 0}
  IN IF nz = {} THEN <<>>
     ELSE SubSeq(a, 1, CHOOSE i \in nz : \A j \in nz : j <= i)

\* -1, 0 or 1 as a is below, equal to or above b.
BigCmp(a, b) ==
  IF Len(a) # Len(b) THEN (IF Len(a) < Len(b) THEN -1 ELSE 1)
  ELSE LET diff == {i \in DOMAIN a : a[i] # b[i]}
       IN IF diff = {} THEN 0
          ELSE LET top == CHOOSE i \in diff : \A j \in diff : j <= i
               IN IF a[top] < b[top] THEN -1 ELSE 1

\* a * m, for m up to 65536.
BigMul(a, m) ==
  LET RECURSIVE From(_, _)
      From(i, carry) ==
        IF i > Len(a)
        THEN (IF carry = 0 THEN <<>> ELSE <<carry % Limb>> \o From(i, carry \div Limb))
        ELSE LET x == a[i] * m + carry
             IN <<x % Limb>> \o From(i + 1, x \div Limb)
  IN IF m = 0 THEN <<>> ELSE From(1, 0)

BigAdd(a, b) ==
  LET At(c, i) == IF i <= Len(c) THEN c[i] ELSE 0
      RECURSIVE From(_, _)
      From(i, carry) ==
        IF i > Len(a) /\ i > Len(b) THEN (IF carry = 0 THEN <<>> ELSE <<carry>>)
        ELSE LET x == At(a, i) + At(b, i) + carry
             IN <<x % Limb>> \o From(i + 1, x \div Limb)
  IN From(1, 0)

\* a - b, for a >= b.
BigSub(a, b) ==
  LET At(c, i) == IF i <= Len(c) THEN c[i] ELSE 0
      RECURSIVE From(_, _)
      From(i, borrow) ==
        IF i > Len(a) THEN <<>>
        ELSE LET x == a[i] - At(b, i) - borrow
             IN IF x < 0 THEN <<x + Limb>> \o From(i + 1, 1)
                ELSE <<x>> \o From(i + 1, 0)
  IN BigNorm(From(1, 0))

\* a * 2^k
RECURSIVE BigShl(_, _)
BigShl(a, k) ==
  IF k = 0 \/ a = <<>> THEN a
  ELSE IF k >= 16 THEN BigShl(BigMul(a, 65536), k - 16)
  ELSE BigShl(BigMul(a, 2), k - 1)

\* a * 10^k
BigMulPow10(a, k) ==
  IF a = <<>> THEN <<>>
  ELSE [i \in 1..(k \div 4) |-> 0]
         \o BigMul(a, CASE k % 4 = 0 -> 1 [] k % 4 = 1 -> 10
                        [] k % 4 = 2 -> 100 [] OTHER -> 1000)

\* The number written with the decimal digits ds, most significant first.
BigOfDigits(ds) ==
  LET n == Len(ds)
      D(i) == IF i >= 1 THEN ds[i] ELSE 0
  IN BigNorm([j \in 1..((n + 3) \div 4) |->
                D(n - 4 * (j - 1)) + 10 * D(n - 4 * (j - 1) - 1)
                  + 100 * D(n - 4 * (j - 1) - 2) + 1000 * D(n - 4 * (j - 1) - 3)])

(***************************************************************************)
(* The Number value of a decimal literal (IEEE 754 binary64, round to      *)
(* nearest, ties to even) and Number::toString: the fewest digits that     *)
(* give the Number back.                                                   *)
(***************************************************************************)

\* The double nearest to ds * 10^q, for digits ds with no zero in front:
\* kind "zero" or "inf", or kind "finite" with the value f * 2^ex, f < 2^53.
ToDouble(ds, q) ==
  LET n == Len(ds) + q
      \* the binary exponent of a / b: a and b scaled so that b <= a < 2b
      RECURSIVE ScaleToUnit(_, _, _)
      ScaleToUnit(a, b, e) ==
        IF BigCmp(a, BigMul(b, 2)) >= 0 THEN ScaleToUnit(a, BigMul(b, 2), e + 1)
        ELSE IF BigCmp(a, b) < 0 THEN ScaleToUnit(BigMul(a, 2), b, e - 1)
        ELSE [a |-> a, b |-> b, e |-> e]
      \* k more bits of the quotient m, not zero, of a division by b with
      \* remainder r
      RECURSIVE QuotientBits(_, _, _, _)
      QuotientBits(r, b, k, m) ==
        IF k = 0 \/ m = <<>> THEN [m |-> m, r |-> r]
        ELSE LET r2 == BigMul(r, 2)
                 bit == BigCmp(r2, b) >= 0
             IN QuotientBits(IF bit THEN BigSub(r2, b) ELSE r2, b, k - 1,
                             BigAdd(BigMul(m, 2), IF bit THEN <<1>> ELSE <<>>))
      \* the value of the significand m at the binary exponent E, a carry
      \* out of the 53 bits moving to the next exponent
      Value(m, E) ==
        LET carried == BigCmp(m, BigShl(<<1>>, 53)) = 0
            top == IF carried THEN E + 1 ELSE E
        IN IF m = <<>> THEN [kind |-> "zero"]
           ELSE IF top > 1023 THEN [kind |-> "inf"]
           ELSE [kind |-> "finite", f |-> IF carried THEN BigShl(<<1>>, 52) ELSE m,
                 ex |-> top - 52]
      \* the quotient qb.m rounded to nearest, ties to even; half compares
      \* twice what is left with the divisor
      Rounded(qb, half, E) ==
        IF half > 0 \/ (half = 0 /\ qb.m # <<>> /\ qb.m[1] % 2 = 1)
        THEN Value(BigAdd(qb.m, <<1>>), E)
        ELSE Value(qb.m, E)
      \* the s bits after the leading one of u.a / u.b at the exponent E
      Divided(u, E, s, qb) ==
        Rounded(qb,
                IF s >= 0 THEN BigCmp(BigMul(qb.r, 2), u.b)
                ELSE IF s = -1 /\ BigCmp(u.a, u.b) > 0 THEN 1
                ELSE -1,
                E)
      \* u.a / u.b in [1, 2) at the exponent u.e; below -1022 the value is
      \* subnormal and keeps fewer bits
      Scaled(u, E) ==
        Divided(u, E, 52 - (E - u.e),
                IF 52 - (E - u.e) >= 0
                THEN QuotientBits(BigSub(u.a, u.b), u.b, 52 - (E - u.e), <<1>>)
                ELSE [m |-> <<>>, r |-> <<>>])
      Unit(u) == Scaled(u, IF u.e < -1022 THEN -1022 ELSE u.e)
      est == ((n - 1) * 3322) \div 1000
  IN
  IF n > 309 THEN [kind |-> "inf"]
  ELSE IF n < -323 THEN [kind |-> "zero"]
  ELSE IF est >= 0
    THEN Unit(ScaleToUnit(BigMulPow10(BigOfDigits(ds), IF q > 0 THEN q ELSE 0),
                          BigShl(BigMulPow10(<<1>>, IF q < 0 THEN 0 - q ELSE 0), est),
                          est))
  ELSE Unit(ScaleToUnit(BigShl(BigMulPow10(BigOfDigits(ds), IF q > 0 THEN q ELSE 0), 0 - est),
                        BigMulPow10(<<1>>, IF q < 0 THEN 0 - q ELSE 0),
                        est))

\* The digits and the decimal exponent n of f * 2^ex, the value being
\* 0.d1d2... * 10^n; k0 is an estimate of n.
DoubleDigits(f, ex, k0) ==
  LET even == f[1] % 2 = 0
      \* the decimal exponent k of the digits' scale: r / s with margin mp
      \* brought to where the first digit is the tenths
      RECURSIVE ScaleDigits(_, _, _, _, _)
      ScaleDigits(r, s, mp, mm, k) ==
        LET high == BigAdd(r, mp)
            c1 == BigCmp(high, s)
            c10 == BigCmp(BigMul(high, 10), s)
        IN IF (IF even THEN c1 >= 0 ELSE c1 > 0)
             THEN ScaleDigits(r, BigMul(s, 10), mp, mm, k + 1)
           ELSE IF ~(IF even THEN c10 >= 0 ELSE c10 > 0)
             THEN ScaleDigits(BigMul(r, 10), s, BigMul(mp, 10), BigMul(mm, 10), k - 1)
           ELSE [r |-> r, s |-> s, mp |-> mp, mm |-> mm, k |-> k]
      \* the digits of r / s up to the first one at which what is left lies
      \* within the margins
      RECURSIVE ShortestDigits(_, _, _, _)
      ShortestDigits(r, s, mp, mm) ==
        LET r10 == BigMul(r, 10)
            d == CHOOSE x \in 0..9 :
                   BigCmp(r10, BigMul(s, x)) >= 0 /\ BigCmp(r10, BigMul(s, x + 1)) < 0
            rem == BigSub(r10, BigMul(s, d))
            mp10 == BigMul(mp, 10)
            mm10 == BigMul(mm, 10)
            low == BigCmp(rem, mm10)
            high == BigCmp(BigAdd(rem, mp10), s)
            tc1 == IF even THEN low <= 0 ELSE low < 0
            tc2 == IF even THEN high >= 0 ELSE high > 0
        IN IF ~tc1 /\ ~tc2 THEN <<d>> \o ShortestDigits(rem, s, mp10, mm10)
           ELSE IF tc1 /\ ~tc2 THEN <<d>>
           ELSE IF ~tc1 /\ tc2 THEN <<d + 1>>
           ELSE IF BigCmp(BigMul(rem, 2), s) < 0 THEN <<d>>
           ELSE <<d + 1>>
      edge == BigCmp(f, BigShl(<<1>>, 52)) = 0 /\ ex > -1074
      up == IF edge THEN 2 ELSE 1
      r0 == BigShl(f, IF ex >= 0 THEN ex + up ELSE up)
      s0 == IF ex >= 0 THEN BigShl(<<1>>, up) ELSE BigShl(<<1>>, up - ex)
      mm0 == IF ex >= 0 THEN BigShl(<<1>>, ex) ELSE <<1>>
      mp0 == IF edge THEN BigMul(mm0, 2) ELSE mm0
      sc == IF k0 >= 0
            THEN ScaleDigits(r0, BigMulPow10(s0, k0), mp0, mm0, k0)
            ELSE ScaleDigits(BigMulPow10(r0, 0 - k0), s0, BigMulPow10(mp0, 0 - k0),
                             BigMulPow10(mm0, 0 - k0), k0)
  IN [digits |-> ShortestDigits(sc.r, sc.s, sc.mp, sc.mm), n |-> sc.k]

\* Number::toString of the positive value 0.d1d2... * 10^n.
NumberText(ds, n) ==
  LET k == Len(ds)
      e == n - 1
      DigitText(d) == [i \in 1..Len(d) |-> ToString(d[i])]
      Zeros(z) == [i \in 1..z |-> "0"]
  IN IF k <= n /\ n <= 21 THEN DigitText(ds) \o Zeros(n - k)
     ELSE IF 0 < n /\ n <= 21
       THEN DigitText(SubSeq(ds, 1, n)) \o <<".">> \o DigitText(SubSeq(ds, n + 1, k))
     ELSE IF -6 < n /\ n <= 0
       THEN <<"0", ".">> \o Zeros(0 - n) \o DigitText(ds)
     ELSE DigitText(<<ds[1]>>)
            \o (IF k > 1 THEN <<".">> \o DigitText(SubSeq(ds, 2, k)) ELSE <<>>)
            \o <<"e">> \o (IF e < 0 THEN <<"-">> ELSE <<"+">>)
            \o Chars(ToString(IF e < 0 THEN 0 - e ELSE e))

\* The Number of the literal with sign neg, digits ds and exponent q, its
\* value being ds * 10^q.
NumberOfLiteral(neg, ds, q) ==
  LET nz == {i \in DOMAIN ds : ds[i] # 0}
      \* the digits from the first to the last that is not zero
      first == CHOOSE i \in nz : \A j \in nz : i <= j
      last == CHOOSE i \in nz : \A j \in nz : j <= i
      q2 == q + (Len(ds) - last)
      sign == IF neg THEN <<"-">> ELSE <<>>
      Text(dd) == NumberOf(sign \o NumberText(dd.digits, dd.n))
      Of(d) ==
        CASE d.kind = "zero" -> NumberOf(<<"0">>)
          [] d.kind = "inf" -> NumberOf(sign \o Chars("Infinity"))
          [] OTHER -> Text(DoubleDigits(d.f, d.ex, (last - first + 1) + q2))
  IN IF nz = {} THEN NumberOf(<<"0">>)
     ELSE Of(ToDouble(SubSeq(ds, first, last), q2))

(***************************************************************************)
(* JSON.parse                                                              *)
(***************************************************************************)

JsonWs == {" ", "\t", "\n", "\r"}

RECURSIVE SkipWs(_, _)
SkipWs(s, i) == IF i <= Len(s) /\ s[i] \in JsonWs THEN SkipWs(s, i + 1) ELSE i

ParseFail == [ok |-> FALSE, val |-> Undefined, pos |-> 0]

Digits == {"0", "1", "2", "3", "4", "5", "6", "7", "8", "9"}

HexDigits == "0123456789abcdef"

\* The value of a hexadecimal digit of either case, -1 for another character.
HexVal(c) ==
  LET upper == "0123456789ABCDEF"
      hit == {i \in 1..16 : SubSeq(HexDigits, i, i) = c \/ SubSeq(upper, i, i) = c}
  IN IF hit = {} THEN -1 ELSE (CHOOSE i \in hit : TRUE) - 1

\* The characters of a string literal from position i (after the opening
\* quote) to its closing quote.  A character from U+0000 to U+001F cannot
\* stand in it unescaped.
RECURSIVE ParseStr(_, _, _)
ParseStr(s, i, acc) ==
  IF i > Len(s) THEN ParseFail
  ELSE IF s[i] = "\"" THEN [ok |-> TRUE, val |-> Str(acc), pos |-> i + 1]
  ELSE IF s[i] = "\\" THEN
    IF i + 1 > Len(s) THEN ParseFail
    ELSE CASE s[i + 1] = "\"" -> ParseStr(s, i + 2, Append(acc, "\""))
           [] s[i + 1] = "\\" -> ParseStr(s, i + 2, Append(acc, "\\"))
           [] s[i + 1] = "/" -> ParseStr(s, i + 2, Append(acc, "/"))
           [] s[i + 1] = "b" -> ParseStr(s, i + 2, Append(acc, CharOf(8)))
           [] s[i + 1] = "f" -> ParseStr(s, i + 2, Append(acc, CharOf(12)))
           [] s[i + 1] = "n" -> ParseStr(s, i + 2, Append(acc, "\n"))
           [] s[i + 1] = "r" -> ParseStr(s, i + 2, Append(acc, "\r"))
           [] s[i + 1] = "t" -> ParseStr(s, i + 2, Append(acc, "\t"))
           [] s[i + 1] = "u" ->
                (IF i + 5 <= Len(s) /\ \A j \in (i + 2)..(i + 5) : HexVal(s[j]) >= 0
                 THEN ParseStr(s, i + 6,
                        AppendUnit(acc, CharOf(HexVal(s[i + 2]) * 4096
                                                + HexVal(s[i + 3]) * 256
                                                + HexVal(s[i + 4]) * 16
                                                + HexVal(s[i + 5]))))
                 ELSE ParseFail)
           [] OTHER -> ParseFail
  ELSE IF s[i] \in {"\n", "\r", "\t"} \/ (Len(s[i]) > 1 /\ CodeOf(s[i]) < 32) THEN ParseFail
  ELSE ParseStr(s, i + 1, AppendUnit(acc, s[i]))

\* A number: an optional minus sign, an integer with no leading zero, an
\* optional fraction, an optional exponent.
ParseNum(s, i) ==
  LET neg == s[i] = "-"
      j == IF neg THEN i + 1 ELSE i
      \* the position after the digits that start at position p
      DigitsEnd(p) ==
        CHOOSE k \in p..(Len(s) + 1) :
          /\ k = Len(s) + 1 \/ s[k] \notin Digits
          /\ \A x \in p..(k - 1) : s[x] \in Digits
      \* the digits at positions lo..hi as numbers
      DigitVals(lo, hi) == [x \in 1..(hi - lo + 1) |-> DigitVal(s[lo + x - 1])]
      \* the value of an exponent's digits, up to cap: an exponent of
      \* Len(s) + 1000 or more makes the Number zero or infinite whatever
      \* the digits before it, the literal having no more than Len(s) digits
      ExponentVal(ds) ==
        LET nz == {x \in DOMAIN ds : ds[x] # 0}
            cap == Len(s) + 1000
        IN IF nz = {} THEN 0
           ELSE LET first == CHOOSE x \in nz : \A y \in nz : x <= y
                    sig == SubSeq(ds, first, Len(ds))
                    Val[x \in 0..Len(sig)] == IF x = 0 THEN 0 ELSE Val[x - 1] * 10 + sig[x]
                IN IF Len(sig) > Len(ToString(cap)) THEN cap
                   ELSE IF Val[Len(sig)] > cap THEN cap
                   ELSE Val[Len(sig)]
      \* the places of the literal's parts: its integer digits end before
      \* intEnd and its fraction before fracEnd; its exponent, if it has one,
      \* is e or E, an optional sign, and the digits expStart up to expEnd
      Exponent(intEnd, fracEnd, expStart) ==
        [intEnd |-> intEnd, fracEnd |-> fracEnd, expStart |-> expStart,
         expEnd |-> IF fracEnd <= Len(s) /\ s[fracEnd] \in {"e", "E"}
                    THEN DigitsEnd(expStart) ELSE fracEnd]
      Fraction(intEnd, fracEnd) ==
        Exponent(intEnd, fracEnd,
                 IF fracEnd + 1 <= Len(s) /\ s[fracEnd + 1] \in {"+", "-"}
                 THEN fracEnd + 2 ELSE fracEnd + 1)
      \* a fraction is a point and digits
      Integer(intEnd) ==
        Fraction(intEnd,
                 IF intEnd <= Len(s) /\ s[intEnd] = "."
                 THEN DigitsEnd(intEnd + 1) ELSE intEnd)
      at == Integer(DigitsEnd(j))
      hasFrac == at.fracEnd # at.intEnd
      hasExp == at.expEnd # at.fracEnd
      expNeg == hasExp /\ at.expStart = at.fracEnd + 2 /\ s[at.fracEnd + 1] = "-"
      expAbs == IF hasExp THEN ExponentVal(DigitVals(at.expStart, at.expEnd - 1)) ELSE 0
      fracDigits == IF hasFrac THEN DigitVals(at.intEnd + 1, at.fracEnd - 1) ELSE <<>>
  IN IF j > Len(s) \/ s[j] \notin Digits THEN ParseFail
     ELSE IF s[j] = "0" /\ j + 1 <= Len(s) /\ s[j + 1] \in Digits THEN ParseFail
     ELSE IF hasFrac /\ at.fracEnd = at.intEnd + 1 THEN ParseFail
     ELSE IF hasExp /\ at.expEnd = at.expStart THEN ParseFail
     ELSE [ok |-> TRUE,
           val |-> NumberOfLiteral(neg, DigitVals(j, at.intEnd - 1) \o fracDigits,
                                   (IF expNeg THEN 0 - expAbs ELSE expAbs) - Len(fracDigits)),
           pos |-> at.expEnd]

ParseWord(s, i, w, v) ==
  IF StartsWith(Slice(s, i - 1), Chars(w))
  THEN [ok |-> TRUE, val |-> v, pos |-> i + Len(w)]
  ELSE ParseFail

\* The property list ps after the property k is set to v: a property that
\* exists keeps its place, array indices come first in ascending order, the
\* other names follow in the order they were created in.
SetProp(ps, k, v) ==
  LET \* a is below b, for decimal numbers of the same length
      Below(a, b) ==
        LET diff == {i \in DOMAIN a : a[i] # b[i]}
        IN diff # {} /\ LET d == CHOOSE i \in diff : \A j \in diff : i <= j
                        IN DigitVal(a[d]) < DigitVal(b[d])
      \* a property name that is an array index: the decimal form of an
      \* integer from 0 to 2^32 - 2
      IsArrayIndex(a) ==
        /\ a # <<>>
        /\ \A i \in DOMAIN a : a[i] \in Digits
        /\ a[1] = "0" => Len(a) = 1
        /\ Len(a) <= 10
        /\ Len(a) = 10 => (a = Chars("4294967294") \/ Below(a, Chars("4294967294")))
      IndexBelow(a, b) == IF Len(a) # Len(b) THEN Len(a) < Len(b) ELSE Below(a, b)
  IN IF \E i \in DOMAIN ps : ps[i].k = k
     THEN [i \in DOMAIN ps |-> IF ps[i].k = k THEN [k |-> k, v |-> v] ELSE ps[i]]
     ELSE IF IsArrayIndex(k)
     THEN LET below == Cardinality({i \in DOMAIN ps :
                                      IsArrayIndex(ps[i].k) /\ IndexBelow(ps[i].k, k)})
          IN SubSeq(ps, 1, below) \o <<[k |-> k, v |-> v]>> \o SubSeq(ps, below + 1, Len(ps))
     ELSE Append(ps, [k |-> k, v |-> v])

RECURSIVE ParseValue(_, _)
RECURSIVE ParseElems(_, _, _)
RECURSIVE ParseMembers(_, _, _)

ParseValue(s, i0) ==
  LET i == SkipWs(s, i0) IN
  IF i > Len(s) THEN ParseFail
  ELSE CASE s[i] = "{" ->
              (LET j == SkipWs(s, i + 1)
               IN IF j <= Len(s) /\ s[j] = "}"
                  THEN [ok |-> TRUE, val |-> Obj(<<>>), pos |-> j + 1]
                  ELSE ParseMembers(s, j, <<>>))
         [] s[i] = "[" ->
              (LET j == SkipWs(s, i + 1)
               IN IF j <= Len(s) /\ s[j] = "]"
                  THEN [ok |-> TRUE, val |-> Arr(<<>>), pos |-> j + 1]
                  ELSE ParseElems(s, j, <<>>))
         [] s[i] = "\"" -> ParseStr(s, i + 1, <<>>)
         [] s[i] = "t" -> ParseWord(s, i, "true", Bool(TRUE))
         [] s[i] = "f" -> ParseWord(s, i, "false", Bool(FALSE))
         [] s[i] = "n" -> ParseWord(s, i, "null", Null)
         [] s[i] = "-" \/ s[i] \in Digits -> ParseNum(s, i)
         [] OTHER -> ParseFail

\* The elements of an array from position i, up to its closing bracket.
ParseElems(s, i, acc) ==
  LET After(r, j) ==
        IF j > Len(s) THEN ParseFail
        ELSE IF s[j] = "," THEN ParseElems(s, j + 1, Append(acc, r.val))
        ELSE IF s[j] = "]" THEN [ok |-> TRUE, val |-> Arr(Append(acc, r.val)), pos |-> j + 1]
        ELSE ParseFail
      Element(r) == IF ~r.ok THEN ParseFail ELSE After(r, SkipWs(s, r.pos))
  IN Element(ParseValue(s, i))

\* The members of an object from position i, up to its closing brace.
ParseMembers(s, i0, acc) ==
  LET After(j, more) ==
        IF j > Len(s) THEN ParseFail
        ELSE IF s[j] = "," THEN ParseMembers(s, j + 1, more)
        ELSE IF s[j] = "}" THEN [ok |-> TRUE, val |-> Obj(more), pos |-> j + 1]
        ELSE ParseFail
      Member(key, r) ==
        IF ~r.ok THEN ParseFail
        ELSE After(SkipWs(s, r.pos), SetProp(acc, key.val.v, r.val))
      Colon(key, c) ==
        IF c > Len(s) \/ s[c] # ":" THEN ParseFail
        ELSE Member(key, ParseValue(s, c + 1))
      Key(key) == IF ~key.ok THEN ParseFail ELSE Colon(key, SkipWs(s, key.pos))
      Name(i) == IF i > Len(s) \/ s[i] # "\"" THEN ParseFail
                 ELSE Key(ParseStr(s, i + 1, <<>>))
  IN Name(SkipWs(s, i0))

\* JSON.parse(text): ok is FALSE where it throws a SyntaxError.
JsonParse(s) ==
  LET Whole(r) == IF r.ok /\ SkipWs(s, r.pos) > Len(s)
                  THEN [ok |-> TRUE, val |-> r.val]
                  ELSE [ok |-> FALSE, val |-> Undefined]
  IN Whole(ParseValue(s, 1))

(***************************************************************************)
(* JSON.stringify                                                          *)
(***************************************************************************)

\* One character as JSON.stringify writes it inside a string: a control
\* character or a surrogate on its own by the four lower case hexadecimal
\* digits of its code unit.
QuoteChar(c) ==
  LET H(n) == SubSeq(HexDigits, n + 1, n + 1)
      Hex4(cp) == <<H(cp \div 4096), H((cp \div 256) % 16), H((cp \div 16) % 16), H(cp % 16)>>
  IN IF c = "\"" THEN <<"\\", "\"">>
     ELSE IF c = "\\" THEN <<"\\", "\\">>
     ELSE IF c = "\n" THEN <<"\\", "n">>
     ELSE IF c = "\r" THEN <<"\\", "r">>
     ELSE IF c = "\t" THEN <<"\\", "t">>
     ELSE IF Len(c) = 1 THEN <<c>>
     ELSE IF c = CharOf(8) THEN <<"\\", "b">>
     ELSE IF c = CharOf(12) THEN <<"\\", "f">>
     ELSE IF CodeOf(c) < 32 \/ IsHighSurrogate(c) \/ IsLowSurrogate(c)
       THEN <<"\\", "u">> \o Hex4(CodeOf(c))
     ELSE <<c>>

\* A string as JSON.stringify quotes it.
RECURSIVE Quote(_)
Quote(s) ==
  IF s = <<>> THEN <<>>
  ELSE QuoteChar(Head(s)) \o Quote(Tail(s))

RECURSIVE Stringify(_)
RECURSIVE StringifyAll(_, _)

\* JSON.stringify(value) of a value built of objects, arrays, strings,
\* numbers, booleans and null.  An infinite Number is written null.
Stringify(v) ==
  CASE v.t = "null" -> Chars("null")
    [] v.t = "bool" -> (IF v.v THEN Chars("true") ELSE Chars("false"))
    [] v.t = "num" -> (IF v.v \in {Chars("Infinity"), Chars("-Infinity")}
                       THEN Chars("null") ELSE v.v)
    [] v.t = "str" -> <<"\"">> \o Quote(v.v) \o <<"\"">>
    [] v.t = "arr" -> <<"[">> \o StringifyAll(v.v, FALSE) \o <<"]">>
    [] v.t = "obj" ->
         <<"{">> \o StringifyAll(SelectSeq(v.v, LAMBDA p : p.v.t # "undefined"), TRUE)
                 \o <<"}">>

\* The comma-separated elements of an array, or members of an object; an
\* element that is undefined is written null.
StringifyAll(items, members) ==
  IF items = <<>> THEN <<>>
  ELSE LET one == IF members
                  THEN <<"\"">> \o Quote(Head(items).k) \o <<"\"", ":">>
                       \o Stringify(Head(items).v)
                  ELSE IF Head(items).t = "undefined" THEN Chars("null")
                  ELSE Stringify(Head(items))
       IN one \o (IF Len(items) > 1 THEN <<",">> ELSE <<>>)
              \o StringifyAll(Tail(items), members)

(***************************************************************************)
(* Configuration: import.meta.env                                          *)
(***************************************************************************)

KeyVars == {"VITE_GROQ_API_KEY", "VITE_CLAUDE_API_KEY", "VITE_OPENAI_API_KEY",
            "VITE_OPENROUTER_API_KEY", "VITE_FLOWISE_API_KEY",
            "VITE_NEURA_ROUTER_API_KEY", "VITE_GOOGLE_API_KEY"}

UrlVars == {"VITE_GROQ_API_URL", "VITE_CLAUDE_API_URL", "VITE_OPENAI_API_URL",
            "VITE_OPENROUTER_API_URL", "VITE_FLOWISE_API_URL",
            "VITE_NEURA_ROUTER_API_URL", "VITE_GOOGLE_API_URL"}

EnvVars ==
  KeyVars \cup UrlVars \cup {"VITE_FLOWISE_CHATFLOW_ID", "VITE_BACKEND_SERVICE_PROVIDER"}

\* A variable that is not set reads as undefined, which `|| ''` turns into
\* the empty string; the model writes "" for it.
Unset == ""

\* The value a variable has when it is set.
SetValue(v) ==
  IF v = "VITE_FLOWISE_API_URL" THEN "https://bots.meetneura.ai/api/v1/prediction/"
  ELSE IF v = "VITE_BACKEND_SERVICE_PROVIDER" THEN "Claude"
  ELSE IF v \in UrlVars THEN "https://gateway.example/" \o v
  ELSE "value-of-" \o v

EnvAllSet == [v \in EnvVars |-> SetValue(v)]

\* The values VITE_BACKEND_SERVICE_PROVIDER is set to, besides "Claude".
ConfiguredProviders == {"flowise", "GROQ", "mistral"}

\* The configurations explored: everything set, nothing set, no credential
\* set, everything set but one credential or the chatflow identifier, and
\* everything set with another configured provider.
Envs ==
  {EnvAllSet, [v \in EnvVars |-> Unset],
   [v \in EnvVars |-> IF v \in KeyVars THEN Unset ELSE SetValue(v)]}
  \cup {[EnvAllSet EXCEPT ![v] = Unset] : v \in KeyVars \cup {"VITE_FLOWISE_CHATFLOW_ID"}}
  \cup {[EnvAllSet EXCEPT !["VITE_BACKEND_SERVICE_PROVIDER"] = c] : c \in ConfiguredProviders}

\* a || b on strings
OrElse(a, b) == IF a # "" THEN a ELSE b

\* The Provider enumeration, and an identifier outside it.
Providers == {"groq", "claude", "openai", "openrouter", "flowise", "neura", "google"}
ProviderIds == Providers \cup {"mistral"}

\* String.prototype.toLowerCase on the letters A to Z
ToLowerCase(str) ==
  LET upper == "ABCDEFGHIJKLMNOPQRSTUVWXYZ"
      lower == "abcdefghijklmnopqrstuvwxyz"
      Low(c) == IF \E i \in 1..26 : SubSeq(upper, i, i) = c
                THEN SubSeq(lower, CHOOSE i \in 1..26 : SubSeq(upper, i, i) = c,
                                   CHOOSE i \in 1..26 : SubSeq(upper, i, i) = c)
                ELSE c
  IN [i \in 1..Len(str) |-> Low(SubSeq(str, i, i))]

\* The providers getProviderFromEnv recognizes.
RecognizedProviders == {"claude", "openai", "flowise", "openrouter", "neura", "google"}

getProviderFromEnv(e) ==
  LET configured == ToLowerCase(e["VITE_BACKEND_SERVICE_PROVIDER"])
  IN IF \E p \in RecognizedProviders : Chars(p) = configured
     THEN CHOOSE p \in RecognizedProviders : Chars(p) = configured
     ELSE "groq"

getApiUrlForProvider(e, provider) ==
  CASE provider = "groq" ->
         OrElse(e["VITE_GROQ_API_URL"], "https://api.groq.com/openai/v1/chat/completions")
    [] provider = "claude" -> OrElse(e["VITE_CLAUDE_API_URL"], "/api/claude-proxy")
    [] provider = "openai" ->
         OrElse(e["VITE_OPENAI_API_URL"], "https://api.openai.com/v1/chat/completions")
    [] provider = "openrouter" ->
         OrElse(e["VITE_OPENROUTER_API_URL"], "https://openrouter.ai/api/v1/chat/completions")
    [] provider = "flowise" ->
         OrElse(e["VITE_FLOWISE_API_URL"], "http://localhost:3000/api/v1/prediction")
    [] provider = "neura" ->
         OrElse(e["VITE_NEURA_ROUTER_API_URL"], "https://api.meetneura.ai/v1/chat/completions/router")
    [] provider = "google" ->
         OrElse(e["VITE_GOOGLE_API_URL"], "https://generativelanguage.googleapis.com")
    [] OTHER -> "https://api.groq.com/openai/v1/chat/completions"

getApiKeyForProvider(e, provider) ==
  CASE provider = "groq" -> OrElse(e["VITE_GROQ_API_KEY"], "")
    [] provider = "claude" -> OrElse(e["VITE_CLAUDE_API_KEY"], "")
    [] provider = "openai" -> OrElse(e["VITE_OPENAI_API_KEY"], "")
    [] provider = "openrouter" -> OrElse(e["VITE_OPENROUTER_API_KEY"], "")
    [] provider = "flowise" -> OrElse(e["VITE_FLOWISE_API_KEY"], "")
    [] provider = "neura" -> OrElse(e["VITE_NEURA_ROUTER_API_KEY"], "")
    [] provider = "google" -> OrElse(e["VITE_GOOGLE_API_KEY"], "")
    [] OTHER -> OrElse(e["VITE_GROQ_API_KEY"], "")

(***************************************************************************)
(* Requests                                                                *)
(***************************************************************************)

\* The longest message list of a request.
MaxMsgs == 2

Roles == {"system", "user", "assistant"}

\* Message contents: empty, white space only (a space, a no-break space),
\* and text.
Contents == {<<>>, <<" ">>, <<CharOf(160)>>, <<"a">>}

Messages == [role : Roles, content : Contents]

MessageLists == UNION {[1..n -> Messages] : n \in 0..MaxMsgs}

\* ChatRequest
ChatRequests ==
  [messages : MessageLists, model : {"model-1"}, temperature : {"0.7"},
   stream : BOOLEAN]

(***************************************************************************)
(* Errors: the message of each Error the dispatcher throws                 *)
(***************************************************************************)

MissingCredential(provider) ==
  "API key for " \o provider \o " is not set. Please check your environment variables."

EmptyRequest ==
  "No valid messages found for Claude API request. Messages cannot have empty content."

MissingFlowiseUrl ==
  "Flowise API URL is not set. Please check your environment variables."

MissingConfiguration ==
  "Flowise Chatflow ID is not set. Please check your environment variables."

NoUserMessage == "No user message found in the request"

MisconfiguredEndpoint ==
  "Received HTML instead of JSON. Make sure your Flowise API URL points to the API endpoint, not the UI. The URL should be in format \"https://bots.meetneura.ai/api/v1/prediction/\" without including the chatflow ID."

(***************************************************************************)
(* The adapters' translations of a request                                 *)
(***************************************************************************)

\* The filter without its trim().
HasValidContent_NoTrim(msg) == msg.content # <<>>

\* msg.content && msg.content.trim() !== ''
HasValidContent(msg) == msg.content # <<>> /\ Trim(msg.content) # <<>>

\* The mapping without its change of role.
AnthropicMessage_KeepRole(msg) == [role |-> msg.role, content |-> msg.content]

\* role: msg.role === 'system' ? 'user' : msg.role
AnthropicMessage(msg) ==
  [role |-> IF msg.role = "system" THEN "user" ELSE msg.role, content |-> msg.content]

\* anthropicMessages of sendClaudeRequest
AnthropicMessages(messages) ==
  LET kept == SelectSeq(messages, HasValidContent)
  IN [i \in DOMAIN kept |-> AnthropicMessage(kept[i])]

\* The filter taking every message that is not a system message.
UserMessages_NonSystem(messages) ==
  LET NonSystem(msg) == msg.role # "system" IN SelectSeq(messages, NonSystem)

\* chatRequest.messages.filter(msg => msg.role === 'user'): pop() takes its last.
UserMessages(messages) == SelectSeq(messages, LAMBDA msg : msg.role = "user")

FlowiseHistoryEntry(msg) ==
  LET tag == IF msg.role = "assistant" THEN "apiMessage" ELSE "userMessage"
  IN [message |-> msg.content, type |-> tag, role |-> tag, content |-> msg.content]

\* history of sendFlowiseRequest
FlowiseHistory(messages, lastUserMessage) ==
  LET Kept(msg) == msg.role # "system"
                   /\ ~(msg.role = "user" /\ msg.content = lastUserMessage.content)
      kept == SelectSeq(messages, Kept)
  IN [i \in DOMAIN kept |-> FlowiseHistoryEntry(kept[i])]

\* apiUrl.replace(/\/api\/v1\/prediction\/?$/, '')
FlowiseBaseUrl(apiUrl) ==
  LET EndsWith(str, suffix) ==
        Len(str) >= Len(suffix)
          /\ SubSeq(str, Len(str) - Len(suffix) + 1, Len(str)) = suffix
  IN
  IF EndsWith(apiUrl, "/api/v1/prediction/")
    THEN SubSeq(apiUrl, 1, Len(apiUrl) - Len("/api/v1/prediction/"))
  ELSE IF EndsWith(apiUrl, "/api/v1/prediction")
    THEN SubSeq(apiUrl, 1, Len(apiUrl) - Len("/api/v1/prediction"))
  ELSE apiUrl

\* The arguments of client.createPrediction
PredictionArgs(chatflowId, lastUserMessage, history, chatRequest) ==
  [chatflowId |-> chatflowId,
   question |-> lastUserMessage.content,
   history |-> IF Len(history) > 0 THEN Arr(history) ELSE Undefined,
   temperature |-> chatRequest.temperature,
   streaming |-> chatRequest.stream]

(***************************************************************************)
(* State                                                                   *)
(***************************************************************************)

VARIABLES
  env,        \* import.meta.env
  pc,         \* where sendChatRequest stands: idle, awaitFetch, awaitBody
              \* (it awaits response.json()), awaitPrediction, producing
              \* (the stream's start() runs), done
  provider,   \* the provider sendChatRequest was called with
  request,    \* the ChatRequest it was called with
  adapter,    \* the adapter it handed the request to
  calls,      \* the outbound calls made: fetch and client.createPrediction
  result,     \* what the caller got: nothing yet, an error, a ChatResponse, a stream
  settled,    \* what the awaited outbound call settled with
  stream,     \* the ReadableStream read by streamChatResponse
  events,     \* the events the flow engine's generator has emitted
  wire,       \* the bytes the transport has still to deliver
  sent,       \* the bytes enqueued on the stream so far
  cuts,       \* the number of chunks the transport has cut the response into
  npc,        \* where streamChatResponse stands: idle, reading (it awaits
              \* reader.read()), decoded, yielded, done, returned, failed,
              \* refused (getReader() threw)
  decoder,    \* the TextDecoder's state
  lines,      \* the lines of the current chunk still to handle
  out,        \* the fragments yielded
  handled,    \* the lines the for loop has gone through, each with what it
              \* yielded
  reads,      \* the text of each chunk read, as decoded, in the order read
  doneSeen,   \* a `data: [DONE]` line was in a chunk read so far
  doneBefore  \* ... in a chunk read before the current one

dvars == <<env, pc, provider, request, adapter, calls, result, settled>>
svars == <<stream, events, wire, sent, cuts>>
nvars == <<npc, decoder, lines, out, handled, reads, doneSeen, doneBefore>>
vars == <<dvars, svars, nvars>>

NoResult == [kind |-> "none"]
NotSettled == [kind |-> "none"]
Resolved(value) == [kind |-> "resolve", value |-> value]
Rejected(message) == [kind |-> "reject", message |-> message]
Thrown(message) == [kind |-> "error", message |-> message]
Returned(value) == [kind |-> "response", value |-> value]
ReturnedStream == [kind |-> "stream"]

NoRequest == [messages |-> <<>>, model |-> "", temperature |-> "", stream |-> FALSE]

NoStream == [state |-> "none", queue |-> <<>>, error |-> "", readers |-> {}]
NewStream == [state |-> "open", queue |-> <<>>, error |-> "", readers |-> {}]

(***************************************************************************)
(* sendChatRequest and the adapters, up to their first await               *)
(***************************************************************************)

\* What an adapter has done when it first awaits, returns or throws.
Step(next, madeCalls, res, strm) ==
  [pc |-> next, calls |-> madeCalls, result |-> res, stream |-> strm]

ClaudeProxyEndpoint == "/api/proxy/claude"

sendClaudeRequest(apiUrl, apiKey, chatRequest) ==
  LET anthropicMessages == AnthropicMessages(chatRequest.messages)
      requestBody == [model |-> chatRequest.model,
                      max_tokens |-> IF chatRequest.stream THEN 16000 ELSE 4096,
                      messages |-> anthropicMessages,
                      stream |-> chatRequest.stream]
  IN IF Len(anthropicMessages) = 0
     THEN Step("done", <<>>, Thrown(EmptyRequest), NoStream)
     ELSE Step("awaitFetch",
               <<[api |-> "fetch", url |-> ClaudeProxyEndpoint,
                  auth |-> [header |-> "x-api-key", value |-> apiKey],
                  body |-> requestBody]>>,
               NoResult, NoStream)

sendOpenAICompatibleRequest(apiUrl, apiKey, chatRequest) ==
  Step("awaitFetch",
       <<[api |-> "fetch", url |-> apiUrl,
          auth |-> [header |-> "Authorization", value |-> "Bearer " \o apiKey],
          body |-> chatRequest]>>,
       NoResult, NoStream)

sendFlowiseRequest(e, apiUrl, apiKey, chatRequest) ==
  LET chatflowId == OrElse(e["VITE_FLOWISE_CHATFLOW_ID"], "")
      baseUrl == FlowiseBaseUrl(apiUrl)
      users == UserMessages(chatRequest.messages)
      lastUserMessage == users[Len(users)]
      history == FlowiseHistory(chatRequest.messages, lastUserMessage)
      prediction ==
        [api |-> "createPrediction", baseUrl |-> baseUrl,
         apiKey |-> OrElse(apiKey, "undefined"),
         args |-> PredictionArgs(chatflowId, lastUserMessage, history, chatRequest)]
  IN IF apiUrl = "" THEN Step("done", <<>>, Thrown(MissingFlowiseUrl), NoStream)
     ELSE IF chatflowId = "" THEN Step("done", <<>>, Thrown(MissingConfiguration), NoStream)
     ELSE IF users = <<>> THEN Step("done", <<>>, Thrown(NoUserMessage), NoStream)
     ELSE IF chatRequest.stream
       \* new ReadableStream({start}) runs start() up to its await of
       \* createPrediction, and the stream is returned
       THEN Step("producing", <<prediction>>, ReturnedStream, NewStream)
     ELSE Step("awaitPrediction", <<prediction>>, NoResult, NoStream)

\* The adapter sendChatRequest hands the provider to.
AdapterOf(p) ==
  IF p = "flowise" THEN "flowise" ELSE IF p = "claude" THEN "claude" ELSE "openai"

\* The test without its exemption of flowise.
MissingKey_NoExemption(apiKey, p) == apiKey = ""

\* !apiKey && provider !== 'flowise'
MissingKey(apiKey, p) == apiKey = "" /\ p # "flowise"

sendChatRequest(p, chatRequest) ==
  LET apiKey == getApiKeyForProvider(env, p)
      apiUrl == getApiUrlForProvider(env, p)
      missing == MissingKey(apiKey, p)
      step == IF missing THEN Step("done", <<>>, Thrown(MissingCredential(p)), NoStream)
              ELSE IF p = "flowise" THEN sendFlowiseRequest(env, apiUrl, apiKey, chatRequest)
              ELSE IF p = "claude" THEN sendClaudeRequest(apiUrl, apiKey, chatRequest)
              ELSE sendOpenAICompatibleRequest(apiUrl, apiKey, chatRequest)
  IN /\ pc = "idle"
     /\ provider' = p
     /\ request' = chatRequest
     /\ adapter' = IF missing THEN "none" ELSE AdapterOf(p)
     /\ pc' = step.pc
     /\ calls' = calls \o step.calls
     /\ result' = step.result
     /\ stream' = step.stream
     /\ UNCHANGED <<settled, env, events, wire, sent, cuts, nvars>>

(***************************************************************************)
(* The adapters after their await                                          *)
(***************************************************************************)

\* What fetch can settle with: a rejection, or a response, whose body has
\* still to arrive; the response of status 204 has none (response.body is
\* null).
HttpOutcomes ==
  {[kind |-> "reject", message |-> "Failed to fetch"],
   [kind |-> "response", status |-> "401", statusText |-> "Unauthorized", body |-> TRUE],
   [kind |-> "response", status |-> "200", statusText |-> "OK", body |-> TRUE],
   [kind |-> "response", status |-> "204", statusText |-> "No Content", body |-> FALSE]}

\* What response.json() can settle with: the value of a JSON body, or the
\* error of a body that is empty, that is not JSON or that fails while it
\* is read.
BodyOutcomes ==
  {[kind |-> "json",
    data |-> Obj(<<[k |-> Chars("error"),
                    v |-> Obj(<<[k |-> Chars("message"),
                                 v |-> Str(Chars("invalid api key"))]>>)]>>)],
   [kind |-> "json",
    data |-> Obj(<<[k |-> Chars("error"),
                    v |-> Obj(<<[k |-> Chars("message"),
                                 v |-> Arr(<<Num(7), Obj(<<[k |-> Chars("toString"),
                                                            v |-> Num(1)]>>)>>)]>>)]>>)],
   [kind |-> "json",
    data |-> Obj(<<[k |-> Chars("id"), v |-> Str(Chars("msg_1"))],
                   [k |-> Chars("content"),
                    v |-> Arr(<<Obj(<<[k |-> Chars("text"), v |-> Str(Chars("hello"))]>>)>>)]>>)],
   [kind |-> "json", data |-> Null],
   [kind |-> "error", message |-> "Unexpected end of JSON input"],
   [kind |-> "error", message |-> "network error"]}

\* response.ok: the status is in the range 200-299.
ResponseOk(o) == Len(o.status) = 3 /\ SubSeq(o.status, 1, 1) = "2"

\* A value as a template literal writes it (ToString): the text, or no text
\* where the conversion throws a TypeError.  An object is written by its
\* toString method: Object.prototype.toString unless the object has a
\* property of that name, which in a value of JSON is no function; valueOf
\* then returns the object itself, and the conversion throws.  An array is
\* written by join, which converts each element but null.
RECURSIVE ToText(_)
ToText(v) ==
  LET Text(str) == [ok |-> TRUE, text |-> str]
      RECURSIVE Flat(_)
      Flat(cs) == IF cs = <<>> THEN "" ELSE Head(cs) \o Flat(Tail(cs))
      RECURSIVE Joined(_)
      Joined(items) ==
        IF items = <<>> THEN Text("")
        ELSE LET Both(first, rest) ==
                   [ok |-> first.ok /\ rest.ok,
                    text |-> first.text \o (IF Len(items) > 1 THEN "," ELSE "") \o rest.text]
             IN Both(IF Nullish(Head(items)) THEN Text("") ELSE ToText(Head(items)),
                     Joined(Tail(items)))
  IN CASE v.t \in {"str", "num"} -> Text(Flat(v.v))
       [] v.t = "bool" -> Text(IF v.v THEN "true" ELSE "false")
       [] v.t = "arr" -> Joined(v.v)
       [] v.t = "obj" -> [ok |-> Prop(v, Chars("toString")) = Undefined,
                          text |-> "[object Object]"]
       [] OTHER -> Text(v.t)

\* The message of the error thrown for a response that is not ok:
\* `Claude API request failed with status ...` / `API request failed with
\* status ...`, or that of the TypeError thrown while the template literal
\* writes errorData's message; errorData is null when response.json() has
\* rejected.
TransportFailure(prefix, o, errorData) ==
  LET message == OptProp(OptProp(errorData, Chars("error")), Chars("message"))
      Failure(detail) ==
        IF detail.ok
          THEN prefix \o " request failed with status " \o o.status \o ": " \o detail.text
        ELSE "Cannot convert object to primitive value"
  IN Failure(IF Truthy(message) THEN ToText(message)
             ELSE [ok |-> TRUE, text |-> o.statusText])

\* The ChatResponse sendClaudeRequest builds of Anthropic's response.
ClaudeChatResponse(data) ==
  LET content == Prop(data, Chars("content"))
      first == IF Nullish(content) THEN Undefined ELSE Index0(content)
      text == OptProp(first, Chars("text"))
  IN [id |-> Prop(data, Chars("id")),
      choices |-> <<[index |-> 0,
                     message |-> [role |-> "assistant",
                                  content |-> IF Truthy(text) THEN text ELSE Str(<<>>)],
                     finish_reason |-> "stop"]>>]

\* The message of the TypeError that reading property name of null or of
\* undefined throws.
ReadOfNullish(v, name) ==
  "Cannot read properties of " \o v.t \o " (reading '" \o name \o "')"

\* fetch settles. A rejection is thrown again by the catch block; of an ok
\* response to a streaming request response.body is returned as it is: an
\* open stream, or null when the response has no body; in every other case
\* the adapter awaits response.json().
FetchSettles(o) ==
  /\ pc = "awaitFetch"
  /\ settled' = o
  /\ IF o.kind = "reject"
       THEN pc' = "done" /\ result' = Thrown(o.message) /\ stream' = stream
     ELSE IF ResponseOk(o) /\ request.stream
       THEN /\ pc' = "done"
            /\ result' = IF o.body THEN ReturnedStream ELSE Returned(Null)
            /\ stream' = IF o.body THEN NewStream ELSE stream
     ELSE pc' = "awaitBody" /\ result' = result /\ stream' = stream
  /\ UNCHANGED <<env, provider, request, adapter, calls, events, wire, sent, cuts, nvars>>

HttpResponse ==
  /\ pc = "awaitFetch"
  /\ \E o \in HttpOutcomes : FetchSettles(o)

\* response.json() settles: the rest of sendClaudeRequest or of
\* sendOpenAICompatibleRequest. For a response that is not ok its rejection
\* is caught and null stands for the error data.
BodySettles(b) ==
  /\ pc = "awaitBody"
  /\ pc' = "done"
  /\ result' =
       IF ~ResponseOk(settled)
         THEN Thrown(TransportFailure(IF adapter = "claude" THEN "Claude API" ELSE "API",
                                      settled,
                                      IF b.kind = "json" THEN b.data ELSE Null))
       ELSE IF b.kind = "error" THEN Thrown(b.message)
       ELSE IF adapter = "claude"
         THEN (IF Nullish(b.data) THEN Thrown(ReadOfNullish(b.data, "id"))
               ELSE Returned(ClaudeChatResponse(b.data)))
       ELSE Returned(b.data)
  /\ UNCHANGED <<env, provider, request, adapter, calls, settled, svars, nvars>>

\* A response without a body has nothing to parse: response.json() rejects.
HttpBody ==
  /\ pc = "awaitBody"
  /\ \E b \in BodyOutcomes :
       /\ settled.body \/ b = [kind |-> "error", message |-> "Unexpected end of JSON input"]
       /\ BodySettles(b)

\* The identifiers generateId can return.
Ids == {"k3x9q2m1zp", "0a7c5e1b9d"}

\* What the flow engine's non-streaming prediction resolves with.
FlowiseResponses ==
  {Str(Chars("plain")),
   Obj(<<[k |-> Chars("text"), v |-> Str(Chars("ok"))]>>),
   Obj(<<[k |-> Chars("text"), v |-> Str(Chars("ok"))],
         [k |-> Chars("result"), v |-> Str(Chars("r"))],
         [k |-> Chars("json"), v |-> Obj(<<[k |-> Chars("a"), v |-> Num(1)]>>)]>>),
   Obj(<<[k |-> Chars("text"), v |-> Str(<<>>)],
         [k |-> Chars("result"), v |-> Str(Chars("r"))]>>),
   Obj(<<[k |-> Chars("result"), v |-> Str(Chars("r"))],
         [k |-> Chars("json"), v |-> Obj(<<[k |-> Chars("a"), v |-> Num(1)]>>)]>>),
   Obj(<<[k |-> Chars("json"), v |-> Obj(<<[k |-> Chars("a"), v |-> Num(1)]>>)]>>),
   Obj(<<[k |-> Chars("other"), v |-> Num(1)]>>)}

\* The messages of the errors the flow engine's call can fail with.
FlowiseErrors ==
  {"Network Error",
   "Unexpected token < in JSON: <!DOCTYPE html><html><body>Flowise</body></html>",
   "Request failed: <html lang=\"en\">"}

\* The extraction with .result tested before .text.
FlowiseContent_ResultFirst(response) ==
  IF response.t = "str" THEN response
  ELSE IF Truthy(Prop(response, Chars("result"))) THEN Prop(response, Chars("result"))
  ELSE IF Truthy(Prop(response, Chars("text"))) THEN Prop(response, Chars("text"))
  ELSE IF Truthy(Prop(response, Chars("json")))
    THEN Str(Stringify(Prop(response, Chars("json"))))
  ELSE Str(<<>>)

\* The content sendFlowiseRequest extracts from a non-streaming response that
\* is neither null nor undefined.
FlowiseContent(response) ==
  IF response.t = "str" THEN response
  ELSE IF Truthy(Prop(response, Chars("text"))) THEN Prop(response, Chars("text"))
  ELSE IF Truthy(Prop(response, Chars("result"))) THEN Prop(response, Chars("result"))
  ELSE IF Truthy(Prop(response, Chars("json")))
    THEN Str(Stringify(Prop(response, Chars("json"))))
  ELSE Str(<<>>)

FlowiseChatResponse(id, response) ==
  [id |-> id,
   choices |-> <<[index |-> 0,
                  message |-> [role |-> "assistant", content |-> FlowiseContent(response)],
                  finish_reason |-> "stop"]>>]

\* The catch block of sendFlowiseRequest: the error it throws for one caught.
FlowiseCatch(message) ==
  IF message # "" /\ (Includes(message, "<!DOCTYPE html>")
                      \/ Includes(message, "<html"))
  THEN MisconfiguredEndpoint
  ELSE message

\* The non-streaming createPrediction resolves.
PredictionResolves(response, id) ==
  /\ pc = "awaitPrediction"
  /\ pc' = "done"
  /\ settled' = Resolved(response)
  /\ result' = IF Nullish(response)
                THEN Thrown(FlowiseCatch(ReadOfNullish(response, "text")))
                ELSE Returned(FlowiseChatResponse(id, response))
  /\ UNCHANGED <<env, provider, request, adapter, calls, svars, nvars>>

\* The non-streaming createPrediction rejects.
PredictionRejects(message) ==
  /\ pc = "awaitPrediction"
  /\ pc' = "done"
  /\ settled' = Rejected(message)
  /\ result' = Thrown(FlowiseCatch(message))
  /\ UNCHANGED <<env, provider, request, adapter, calls, svars, nvars>>

PredictionResponse ==
  /\ pc = "awaitPrediction"
  /\ \/ \E response \in FlowiseResponses, id \in Ids : PredictionResolves(response, id)
     \/ \E message \in FlowiseErrors : PredictionRejects(message)

(***************************************************************************)
(* streamChatResponse                                                      *)
(***************************************************************************)

DoneLine == Chars("data: [DONE]")

\* line.trim() !== '' && line.trim() !== 'data: [DONE]'
KeptLine(line) == Trim(line) # <<>> /\ Trim(line) # DoneLine

\* chunk.split('\n').filter(...)
ChunkLines(text) == SelectSeq(SplitLines(text), KeptLine)

IsStr(v, str) == v.t = "str" /\ v.v = Chars(str)

Yield(v) == [yield |-> TRUE, value |-> v]
NoYield == [yield |-> FALSE, value |-> Undefined]

\* The if / else if chain on the parsed value of a line.
ExtractFragment(data) ==
  LET delta == Prop(data, Chars("delta"))
      choices == Prop(data, Chars("choices"))
      first == Index0(choices)
      deltaContent == OptProp(OptProp(first, Chars("delta")), Chars("content"))
      messageContent == OptProp(OptProp(first, Chars("message")), Chars("content"))
  IN IF IsStr(Prop(data, Chars("type")), "content_block_delta")
        /\ IsStr(OptProp(delta, Chars("type")), "text_delta")
       THEN Yield(Prop(delta, Chars("text")))
     ELSE IF Truthy(choices) /\ Truthy(deltaContent) THEN Yield(deltaContent)
     ELSE IF Truthy(choices) /\ Truthy(messageContent) THEN Yield(messageContent)
     ELSE NoYield

\* The body of the for loop for one line: what it yields, if anything.  An
\* exception (JSON.parse's, or the TypeError of reading a property of null)
\* is caught and the line skipped.
HandleLine(line) ==
  IF Includes(line, Chars("event: ping")) THEN NoYield
  ELSE IF StartsWith(line, Chars("event:")) THEN NoYield
  ELSE IF ~StartsWith(line, Chars("data:")) THEN NoYield
  ELSE LET trimmedLine == IF StartsWith(line, Chars("data: ")) THEN Slice(line, 6) ELSE line
           Data(parsed) ==
             IF ~parsed.ok THEN NoYield
             ELSE IF parsed.val.t = "null" THEN NoYield
             ELSE ExtractFragment(parsed.val)
       IN IF Trim(trimmedLine) = <<>> THEN NoYield
          ELSE Data(JsonParse(trimmedLine))

\* The for loop from the line at its head to its next yield, or to its end:
\* the fragment yielded, if any, and the lines left.
RECURSIVE RunLines(_)
RunLines(ls) ==
  IF ls = <<>> THEN [yield |-> FALSE, value |-> Undefined, rest |-> <<>>]
  ELSE LET After(h) ==
             IF h.yield THEN [yield |-> TRUE, value |-> h.value, rest |-> Tail(ls)]
             ELSE RunLines(Tail(ls))
       IN After(HandleLine(Head(ls)))

\* The first call of next(): stream.getReader() locks the stream, and the
\* generator awaits its first read.  On a stream that another reader has
\* locked getReader() throws a TypeError: it stands outside the try block,
\* so that the generator ends with the error and holds nothing.
GetReader ==
  /\ npc = "idle"
  /\ stream.state # "none"
  /\ IF stream.readers = {}
       THEN stream' = [stream EXCEPT !.readers = {"generator"}] /\ npc' = "reading"
       ELSE stream' = stream /\ npc' = "refused"
  /\ UNCHANGED <<dvars, events, wire, sent, cuts, decoder, lines, out, handled, reads, doneSeen, doneBefore>>

\* reader.read() resolves with a chunk: it is decoded and split into lines.
ReadChunk ==
  /\ npc = "reading"
  /\ stream.state # "errored"
  /\ stream.queue # <<>>
  /\ LET Decoded(r) ==
           /\ decoder' = r.st
           /\ lines' = ChunkLines(r.text)
           /\ reads' = Append(reads, r.text)
           /\ doneBefore' = doneSeen
           /\ doneSeen' = (doneSeen \/ \E i \in DOMAIN SplitLines(r.text) :
                                          Trim(SplitLines(r.text)[i]) = DoneLine)
     IN Decoded(Decode(decoder, Head(stream.queue)))
  /\ stream' = [stream EXCEPT !.queue = Tail(@)]
  /\ npc' = "decoded"
  /\ UNCHANGED <<dvars, events, wire, sent, cuts, out, handled>>

\* The for loop runs, from the chunk's first line or from the yield it was
\* suspended at, to its next yield or to the next read.
RunLoop ==
  /\ npc \in {"decoded", "yielded"}
  /\ LET Ran(r, n) ==
           /\ lines' = r.rest
           /\ out' = IF r.yield THEN Append(out, r.value) ELSE out
           /\ handled' = handled \o
                [i \in 1..n |-> [line |-> lines[i],
                                 yielded |-> IF r.yield /\ i = n THEN <<r.value>> ELSE <<>>]]
           /\ npc' = IF r.yield THEN "yielded" ELSE "reading"
         Left(r) == Ran(r, Len(lines) - Len(r.rest))
     IN Left(RunLines(lines))
  /\ UNCHANGED <<dvars, svars, decoder, reads, doneSeen, doneBefore>>

\* reader.read() resolves with done: the loop breaks, finally releases the lock.
ReadDone ==
  /\ npc = "reading"
  /\ stream.state = "closed"
  /\ stream.queue = <<>>
  /\ stream' = [stream EXCEPT !.readers = @ \ {"generator"}]
  /\ npc' = "done"
  /\ UNCHANGED <<dvars, events, wire, sent, cuts, decoder, lines, out, handled, reads, doneSeen, doneBefore>>

\* The rejection leaves the generator with the lock still held, as when
\* releaseLock() follows the loop instead of standing in a finally block.
ReadFails_NoRelease ==
  /\ npc = "reading"
  /\ stream.state = "errored"
  /\ npc' = "failed"
  /\ UNCHANGED <<dvars, svars, decoder, lines, out, handled, reads, doneSeen, doneBefore>>

\* reader.read() rejects with the stream's error: finally releases the lock
\* and the error reaches the caller.
ReadFails ==
  /\ npc = "reading"
  /\ stream.state = "errored"
  /\ stream' = [stream EXCEPT !.readers = @ \ {"generator"}]
  /\ npc' = "failed"
  /\ UNCHANGED <<dvars, events, wire, sent, cuts, decoder, lines, out, handled, reads, doneSeen, doneBefore>>

\* The caller abandons the sequence (return()).  At a yield the finally
\* block releases the lock.  Before the first next() the generator has not
\* started: it ends without running, and the stream was never locked by it.
\* (A return() called while a read is pending waits for that next() to
\* settle, and so takes effect at the yield.)
Abandon ==
  /\ npc \in {"idle", "yielded"}
  /\ stream.state # "none"
  /\ stream' = [stream EXCEPT !.readers = @ \ {"generator"}]
  /\ npc' = "returned"
  /\ UNCHANGED <<dvars, events, wire, sent, cuts, decoder, lines, out, handled, reads, doneSeen, doneBefore>>

\* Other code takes a reader of the same stream: getReader() locks a stream
\* that is not locked, and throws on a locked one, which changes nothing.
OtherGetReader ==
  /\ stream.state # "none"
  /\ "other" \notin stream.readers
  /\ stream' = IF stream.readers = {} THEN [stream EXCEPT !.readers = {"other"}] ELSE stream
  /\ UNCHANGED <<dvars, events, wire, sent, cuts, nvars>>

\* The other reader releases its lock.
OtherRelease ==
  /\ "other" \in stream.readers
  /\ stream' = [stream EXCEPT !.readers = @ \ {"other"}]
  /\ UNCHANGED <<dvars, events, wire, sent, cuts, nvars>>

(***************************************************************************)
(* The streaming flow engine: the start() of sendFlowiseRequest's stream   *)
(***************************************************************************)

\* The most events the flow engine's generator emits.
MaxEvents == 2

\* The events the generator can emit: {event, data}.
SdkEvents ==
  {[event |-> "token", data |-> Chars("Hi")],
   [event |-> "token", data |-> <<>>],
   [event |-> "token", data |-> <<"a", "\"", "\n", CharOf(233)>>],
   [event |-> "token", data |-> Chars("event: ping")],
   [event |-> "metadata", data |-> Chars("{}")]}

\* formattedChunk: the OpenAI streaming shape around a token's data.
FormattedChunk(data) ==
  Stringify(Obj(<<[k |-> Chars("choices"),
                   v |-> Arr(<<Obj(<<[k |-> Chars("index"), v |-> Num(0)],
                                     [k |-> Chars("delta"),
                                      v |-> Obj(<<[k |-> Chars("content"), v |-> Str(data)]>>)],
                                     [k |-> Chars("finish_reason"), v |-> Null]>>)>>)]>>))

\* encoder.encode(`data: ${formattedChunk}\n\n`)
TokenChunk(data) == Encode(Chars("data: ") \o FormattedChunk(data) \o Chars("\n\n"))

\* encoder.encode('data: [DONE]\n\n')
DoneChunk == Encode(Chars("data: [DONE]\n\n"))

\* chunk.event === 'token' && chunk.data
IsToken(ev) == ev.event = "token" /\ ev.data # <<>>

\* controller.enqueue(chunk)
Enqueue(strm, chunk) == [strm EXCEPT !.queue = Append(@, chunk)]

\* One turn of the for await loop: the generator emits an event.
SdkEmits(ev) ==
  /\ pc = "producing"
  /\ Len(events) < MaxEvents
  /\ events' = Append(events, ev)
  /\ stream' = IF IsToken(ev) THEN Enqueue(stream, TokenChunk(ev.data)) ELSE stream
  /\ sent' = IF IsToken(ev) THEN sent \o TokenChunk(ev.data) ELSE sent
  /\ UNCHANGED <<settled, env, pc, provider, request, adapter, calls, result, wire, cuts, nvars>>

SdkEvent ==
  /\ pc = "producing"
  /\ \E ev \in SdkEvents : SdkEmits(ev)

\* The generator ends and the stream is closed with no sentinel enqueued.
SdkEnds_NoSentinel ==
  /\ pc = "producing"
  /\ pc' = "done"
  /\ stream' = [stream EXCEPT !.state = "closed"]
  /\ UNCHANGED <<settled, env, provider, request, adapter, calls, result, events, wire, sent, cuts, nvars>>

\* The generator ends: the sentinel is enqueued and the stream closed.
SdkEnds ==
  /\ pc = "producing"
  /\ pc' = "done"
  /\ stream' = [Enqueue(stream, DoneChunk) EXCEPT !.state = "closed"]
  /\ sent' = sent \o DoneChunk
  /\ UNCHANGED <<settled, env, provider, request, adapter, calls, result, events, wire, cuts, nvars>>

\* createPrediction rejects, or the generator throws: the catch block of
\* start() errors the stream, which drops what is queued.
SdkThrows(message) ==
  /\ pc = "producing"
  /\ pc' = "done"
  /\ settled' = Rejected(message)
  /\ stream' = [stream EXCEPT !.state = "errored", !.queue = <<>>, !.error = message]
  /\ UNCHANGED <<env, provider, request, adapter, calls, result, events, wire, sent, cuts, nvars>>

SdkFailure ==
  /\ pc = "producing"
  /\ \E message \in FlowiseErrors : SdkThrows(message)

(***************************************************************************)
(* The transport behind response.body                                      *)
(***************************************************************************)

\* The most lines a response stream holds.
MaxLines == 2

\* The most chunks the transport cuts a response into.
MaxChunks == 2

\* The lines a provider's stream is made of: data lines of each shape, the
\* sentinel, a malformed line, event tags, and data lines that look like
\* event tags (content that holds the text of a heartbeat, `data:` with no
\* space after it).
StreamLines ==
  {Chars("data: {\"choices\":[{\"delta\":{\"content\":\"Hi\"}}]}"),
   Chars("data: {\"type\":\"content_block_delta\",\"delta\":{\"type\":\"text_delta\",\"text\":\"Yo\"}}"),
   Chars("data: {\"choices\":[{\"delta\":{\"content\":\"B\"},\"message\":{\"content\":\"C\"}}]}"),
   Chars("data: {\"choices\":[{\"message\":{\"content\":\"") \o <<CharOf(233)>> \o Chars("\"}}]}"),
   Chars("data: [DONE]"),
   Chars("data: not-json"),
   Chars("event: ping"),
   Chars("event: content_block_delta"),
   Chars("data: {\"choices\":[{\"delta\":{\"content\":\"event: ping\"}}]}"),
   Chars("data:{\"choices\":[{\"delta\":{\"content\":\"Hi\"}}]}")}

\* A stream's text: each line followed by an empty line.
RECURSIVE WireText(_)
WireText(ls) ==
  IF ls = <<>> THEN <<>> ELSE Head(ls) \o Chars("\n\n") \o WireText(Tail(ls))

Wires == {Encode(WireText(ls)) : ls \in UNION {[1..n -> StreamLines] : n \in 0..MaxLines}}

\* The transport enqueues the next k bytes of the response as a chunk:
\* behind the chunks not yet read, and whatever streamChatResponse is doing.
NetDelivers(k) ==
  /\ stream.state = "open"
  /\ wire # <<>>
  /\ cuts < MaxChunks
  /\ stream' = Enqueue(stream, SubSeq(wire, 1, k))
  /\ sent' = sent \o SubSeq(wire, 1, k)
  /\ wire' = SubSeq(wire, k + 1, Len(wire))
  /\ cuts' = cuts + 1
  /\ UNCHANGED <<dvars, events, nvars>>

\* A chunk ends after any byte of those the transport has left; the last
\* chunk it may cut takes them all.
NetChunk ==
  /\ stream.state = "open"
  /\ wire # <<>>
  /\ \E k \in (IF cuts + 1 < MaxChunks THEN 1..Len(wire) ELSE {Len(wire)}) : NetDelivers(k)

\* The response ends: the stream closes.  The chunks still queued are read
\* before the reader sees the end.
NetClose ==
  /\ stream.state = "open"
  /\ wire = <<>>
  /\ stream' = [stream EXCEPT !.state = "closed"]
  /\ UNCHANGED <<dvars, events, wire, sent, cuts, nvars>>

\* The connection breaks, at any time before the response has ended: the
\* stream is errored, and the chunks still queued are dropped.
NetError ==
  /\ stream.state = "open"
  /\ stream' = [stream EXCEPT !.state = "errored", !.queue = <<>>, !.error = "network error"]
  /\ UNCHANGED <<dvars, events, wire, sent, cuts, nvars>>

(***************************************************************************)
(* Properties of sendChatRequest and its adapters (under Spec)             *)
(***************************************************************************)

\* sendChatRequest has been called.
Dispatched == pc # "idle"

\* C1: for every provider other than flowise, sendChatRequest called when the
\* provider's credential is empty fails with the missing-credential error,
\* hands the request to no adapter and issues no outbound call; for flowise
\* an empty credential never causes this error.
MissingCredentialFails ==
  Dispatched =>
    /\ (provider # "flowise" /\ getApiKeyForProvider(env, provider) = "")
         => /\ pc = "done"
            /\ result = Thrown(MissingCredential(provider))
            /\ adapter = "none"
            /\ calls = <<>>
    /\ provider = "flowise" => result # Thrown(MissingCredential("flowise"))

\* C1 witness: an unrecognized provider and claude, each without a credential,
\* have failed on a request that holds messages; so has not flowise.
MissingCredentialSeen ==
  /\ pc = "done"
  /\ provider \in {"mistral", "claude"}
  /\ getApiKeyForProvider(env, provider) = ""
  /\ request.messages # <<>>
  /\ result = Thrown(MissingCredential(provider))

\* A content of white space only (the empty content included).
Blank(content) == \A i \in DOMAIN content : IsSpace(content[i])

\* The request reached the claude adapter.
ClaudeRan == Dispatched /\ adapter = "claude"

\* The messages of the body sent to the proxy.
SentMessages == calls[1].body.messages

\* C2 as claimed: a request whose every message has empty content fails with
\* EmptyRequest and nothing is sent; a request with at least one non-empty
\* message is sent, with no empty-content message in the list sent.
ClaudeSendsNonEmpty ==
  ClaudeRan =>
    IF \A i \in DOMAIN request.messages : request.messages[i].content = <<>>
    THEN result = Thrown(EmptyRequest) /\ calls = <<>>
    ELSE /\ Len(calls) = 1
         /\ calls[1].url = ClaudeProxyEndpoint
         /\ \A i \in DOMAIN SentMessages : SentMessages[i].content # <<>>

\* C2 amended: a request whose every message has empty or white-space-only
\* content fails with EmptyRequest and nothing is sent; a request with at
\* least one message of other content is sent, with no empty or
\* white-space-only message in the list sent.
ClaudeSendsNonBlank ==
  ClaudeRan =>
    IF \A i \in DOMAIN request.messages : Blank(request.messages[i].content)
    THEN pc = "done" /\ result = Thrown(EmptyRequest) /\ calls = <<>>
    ELSE /\ Len(calls) = 1
         /\ calls[1].api = "fetch"
         /\ calls[1].url = ClaudeProxyEndpoint
         /\ SentMessages # <<>>
         /\ \A i \in DOMAIN SentMessages : ~Blank(SentMessages[i].content)

\* C2 witness: a request holding only a white-space-only message has failed
\* with EmptyRequest, nothing sent.
ClaudeBlankRejected ==
  /\ ClaudeRan
  /\ request.messages # <<>>
  /\ \E i \in DOMAIN request.messages : request.messages[i].content = <<" ">>
  /\ result = Thrown(EmptyRequest)
  /\ calls = <<>>

\* The messages of the list whose content is not dropped, in their order,
\* with role system replaced by user.  Dropped are the empty contents and,
\* with blankToo, those of white space only.
RECURSIVE Translated(_, _)
Translated(messages, blankToo) ==
  IF messages = <<>> THEN <<>>
  ELSE LET m == Head(messages)
           r == IF m.role = "system" THEN "user" ELSE m.role
           dropped == IF blankToo THEN Blank(m.content) ELSE m.content = <<>>
       IN IF dropped THEN Translated(Tail(messages), blankToo)
          ELSE <<[role |-> r, content |-> m.content]>> \o Translated(Tail(messages), blankToo)

\* C3 as claimed: the list sent is the subsequence of the request's non-empty
\* messages, contents unchanged, system replaced by user.
ClaudeSendsNonEmptySubsequence ==
  (ClaudeRan /\ calls # <<>>) => SentMessages = Translated(request.messages, FALSE)

\* C3 amended: the list sent is the subsequence of the request's messages
\* whose content is neither empty nor white space only, in their original
\* order, contents unchanged, role system replaced by user, roles user and
\* assistant kept.
ClaudeSendsNonBlankSubsequence ==
  (ClaudeRan /\ calls # <<>>) => SentMessages = Translated(request.messages, TRUE)

\* C3 witness: a system message followed by a white-space-only one was sent
\* as one user message.
ClaudeSystemSent ==
  /\ ClaudeRan
  /\ Len(request.messages) = 2
  /\ request.messages[1].role = "system"
  /\ request.messages[2].content = <<" ">>
  /\ calls # <<>>
  /\ SentMessages = <<[role |-> "user", content |-> <<"a">>]>>

\* The request reached the flowise adapter with a chatflow identifier set.
FlowiseRan ==
  /\ Dispatched
  /\ adapter = "flowise"
  /\ env["VITE_FLOWISE_CHATFLOW_ID"] # Unset
  /\ env["VITE_FLOWISE_CHATFLOW_ID"] # ""

HasUser(messages) == \E i \in DOMAIN messages : messages[i].role = "user"

\* C4: the flowise adapter, with a chatflow identifier configured, fails on a
\* request that holds no message of role user with NoUserMessage, and makes
\* no prediction call.
FlowiseNeedsUserMessage ==
  (FlowiseRan /\ ~HasUser(request.messages))
    => pc = "done" /\ result = Thrown(NoUserMessage) /\ calls = <<>>

\* C4 witness: a request of assistant and system messages has failed so.
FlowiseNoUserSeen ==
  /\ FlowiseRan
  /\ Len(request.messages) = 2
  /\ request.messages[1].role = "assistant"
  /\ request.messages[2].role = "system"
  /\ result = Thrown(NoUserMessage)

\* The index of the most recent message of role user.
LastUser(messages) ==
  CHOOSE i \in DOMAIN messages :
    /\ messages[i].role = "user"
    /\ \A j \in DOMAIN messages : messages[j].role = "user" => j <= i

\* The non-system messages of the list, tagged for the flow engine.
RECURSIVE Tagged(_)
Tagged(messages) ==
  IF messages = <<>> THEN <<>>
  ELSE LET m == Head(messages)
           tag == IF m.role = "assistant" THEN "apiMessage" ELSE "userMessage"
       IN IF m.role = "system" THEN Tagged(Tail(messages))
          ELSE <<[message |-> m.content, type |-> tag, role |-> tag, content |-> m.content]>>
                 \o Tagged(Tail(messages))

\* C5 as claimed: the question sent is the content of the most recent user
\* message, and the history sent is the non-system messages earlier than it,
\* in order, tagged apiMessage or userMessage, omitted when empty.
FlowiseSendsEarlierMessages ==
  (FlowiseRan /\ calls # <<>>) =>
    LET last == LastUser(request.messages)
        earlier == Tagged(SubSeq(request.messages, 1, last - 1))
    IN /\ calls[1].args.question = request.messages[last].content
       /\ calls[1].args.history = IF earlier = <<>> THEN Undefined ELSE Arr(earlier)

(***************************************************************************)
(* Properties of the streaming flow engine's stream (under SpecFlow)       *)
(***************************************************************************)

NonBlankLine(line) == Trim(line) # <<>>

\* The lines enqueued on the stream so far, the blank ones left out.
SentLines == SelectSeq(SplitLines(Decode(DecoderInit, sent).text), NonBlankLine)

IsDoneLine(line) == line = Chars("data: [DONE]")

\* The stream of a streaming flowise request has ended: closed or errored.
FlowStreamEnded == adapter = "flowise" /\ stream.state \in {"closed", "errored"}

\* C6 as claimed: in every run, the last item enqueued on the stream before
\* it ends is the `data: [DONE]` line.
SentinelEndsEveryRun ==
  FlowStreamEnded => SentLines # <<>> /\ IsDoneLine(SentLines[Len(SentLines)])

\* C6 amended: when the producer completes and the stream closes, the last
\* item enqueued is the `data: [DONE]` line, enqueued once; while the stream
\* is open, and when the producer fails and the stream is errored, no
\* `data: [DONE]` line has been enqueued.
SentinelEndsClosedStream ==
  adapter = "flowise" =>
    /\ stream.state = "closed" =>
         /\ SentLines # <<>>
         /\ IsDoneLine(SentLines[Len(SentLines)])
         /\ \A i \in 1..(Len(SentLines) - 1) : ~IsDoneLine(SentLines[i])
    /\ stream.state \in {"open", "errored"} =>
         \A i \in DOMAIN SentLines : ~IsDoneLine(SentLines[i])

\* C6 witness: the stream has closed after a token, the sentinel last.
SentinelAfterToken ==
  /\ adapter = "flowise"
  /\ stream.state = "closed"
  /\ \E i \in DOMAIN events : IsToken(events[i])
  /\ Len(SentLines) >= 2
  /\ IsDoneLine(SentLines[Len(SentLines)])

(***************************************************************************)
(* Properties of streamChatResponse (under SpecNorm)                       *)
(***************************************************************************)

\* The lines the loop has gone through, and what they yielded, in order.
HandledLines == [i \in DOMAIN handled |-> handled[i].line]

RECURSIVE YieldedFrom(_)
YieldedFrom(hs) == IF hs = <<>> THEN <<>> ELSE Head(hs).yielded \o YieldedFrom(Tail(hs))

\* The lines that have arrived: those of each chunk read, blank lines and
\* sentinel lines left out, in the order of the reads.
RECURSIVE LinesOf(_)
LinesOf(texts) ==
  IF texts = <<>> THEN <<>> ELSE ChunkLines(Head(texts)) \o LinesOf(Tail(texts))

ArrivedLines == LinesOf(reads)

\* C7 as claimed: once a `data: [DONE]` line has been read, no further
\* fragment is yielded.
NoFragmentAfterSentinel == [][doneBefore => out' = out]_vars

\* What follows the `data:` prefix of a line, with or without a space.
PayloadOf(line) ==
  IF StartsWith(line, Chars("data: ")) THEN Slice(line, 6) ELSE Slice(line, 5)

\* What the claimed precedence picks for a line: nothing for a line that is
\* no `data:` line or whose payload is no JSON object, else at most one
\* fragment of the payload.
Chosen(line) ==
  IF ~StartsWith(line, Chars("data:")) THEN <<>>
  ELSE LET parsed == JsonParse(PayloadOf(line))
           data == parsed.val
           delta == Prop(data, Chars("delta"))
           first == Index0(Prop(data, Chars("choices")))
           inDelta == OptProp(OptProp(first, Chars("delta")), Chars("content"))
           inMessage == OptProp(OptProp(first, Chars("message")), Chars("content"))
       IN IF ~parsed.ok \/ data.t # "obj" THEN <<>>
          ELSE IF Prop(data, Chars("type")) = Str(Chars("content_block_delta"))
                  /\ delta.t = "obj"
                  /\ Prop(delta, Chars("type")) = Str(Chars("text_delta"))
            THEN <<Prop(delta, Chars("text"))>>
          ELSE IF Truthy(inDelta) THEN <<inDelta>>
          ELSE IF Truthy(inMessage) THEN <<inMessage>>
          ELSE <<>>

\* C8 as claimed: each line yields at most one fragment, the one chosen by
\* the precedence (a) the text of an Anthropic content_block_delta with a
\* text delta, else (b) the content of choices[0].delta, else (c) the content
\* of choices[0].message, else nothing; the lines are gone through in the
\* order in which they arrived, and the fragments are yielded in the order
\* of their lines.
FragmentsByPrecedence ==
  /\ \A i \in DOMAIN handled : handled[i].yielded = Chosen(handled[i].line)
  /\ HandledLines \o lines = ArrivedLines
  /\ out = YieldedFrom(handled)

\* A `data:` line whose payload is not valid JSON.
Malformed(line) == StartsWith(line, Chars("data:")) /\ ~JsonParse(PayloadOf(line)).ok

\* C9 as claimed: a `data:` line whose payload is not valid JSON yields
\* nothing and does not end the sequence: every valid line (a `data:` line
\* whose payload is JSON that carries content) that arrives after it, in the
\* same read or a later one, yields its fragment; and the sequence fails
\* only with an error of the stream.
ValidLinesAfterMalformedYield ==
  /\ \A i \in DOMAIN handled : Malformed(handled[i].line) => handled[i].yielded = <<>>
  /\ \A j \in DOMAIN handled :
       (Chosen(handled[j].line) # <<>> /\ \E i \in 1..(j - 1) : Malformed(handled[i].line))
         => handled[j].yielded = Chosen(handled[j].line)
  /\ npc = "failed" => stream.state = "errored"

\* The fragments of lines that arrive within one read.
RECURSIVE FragmentsOf(_)
FragmentsOf(ls) ==
  IF ls = <<>> THEN <<>>
  ELSE LET h == HandleLine(Head(ls))
       IN (IF h.yield THEN <<h.value>> ELSE <<>>) \o FragmentsOf(Tail(ls))

\* C10 as claimed: however the bytes are cut into reads, the fragments
\* yielded when the stream has ended are those yielded when the whole
\* stream arrives within one read.
ChunkingIndependent ==
  npc = "done" => out = FragmentsOf(ChunkLines(Decode(DecoderInit, sent).text))

(***************************************************************************)
(* The lock of the stream (under SpecLock)                                 *)
(***************************************************************************)

\* streamChatResponse holds a reader: it has called getReader() and has
\* not stopped.
ReaderActive == npc \in {"reading", "decoded", "yielded"}

\* C11: streamChatResponse holds the lock exactly from its getReader() to its
\* stopping, and releases it on every way of stopping: the stream closed
\* (done), a read failed and its error reached the caller (failed), the
\* caller abandoned the sequence (returned), at a yield or before the first
\* next(); once it has stopped it never leaves the stream locked; and with
\* other code asking for a reader of the same stream at any time, no more
\* than one reader ever holds the lock.
LockReleasedOnStop ==
  /\ npc \in {"done", "failed", "returned", "refused"} => "generator" \notin stream.readers
  /\ "generator" \in stream.readers <=> ReaderActive
  /\ Cardinality(stream.readers) <= 1
  /\ npc = "failed" => stream.state = "errored" /\ stream.error # ""

\* C11 witness: the caller has abandoned the sequence after its first
\* fragment, with lines of the chunk still to handle, and the lock, free
\* again, has been taken by another reader.
LockFreeAfterAbandon ==
  /\ npc = "returned"
  /\ Len(out) = 1
  /\ lines # <<>>
  /\ stream.readers = {"other"}

(***************************************************************************)
(* Properties of the flowise adapter after its call (under Spec, SpecFlow) *)
(***************************************************************************)

\* A non-streaming flowise request whose prediction call has resolved.
FlowiseSucceeded ==
  /\ Dispatched
  /\ adapter = "flowise"
  /\ ~request.stream
  /\ settled.kind = "resolve"

\* The content of the first field of the priority order that the response
\* has: a field counts when it is present or, with nonEmpty, when its value
\* is truthy (neither absent nor an empty string).
FirstField(response, nonEmpty) ==
  LET Has(k) == IF nonEmpty THEN Truthy(Prop(response, Chars(k)))
                ELSE Prop(response, Chars(k)) # Undefined
  IN IF response.t = "str" THEN response
     ELSE IF Has("text") THEN Prop(response, Chars("text"))
     ELSE IF Has("result") THEN Prop(response, Chars("result"))
     ELSE IF Has("json") THEN Str(Stringify(Prop(response, Chars("json"))))
     ELSE Str(<<>>)

\* The response has one Choice: index 0, role assistant, finish reason stop.
OneAssistantChoice(value) ==
  /\ Len(value.choices) = 1
  /\ value.choices[1].index = 0
  /\ value.choices[1].message.role = "assistant"
  /\ value.choices[1].finish_reason = "stop"

\* C12 as claimed: the content is that of the first result field present:
\* the body if a plain string, else .text, else .result, else the
\* stringified .json.
ContentOfFirstPresentField ==
  FlowiseSucceeded =>
    /\ result.kind = "response"
    /\ OneAssistantChoice(result.value)
    /\ result.value.choices[1].message.content = FirstField(settled.value, FALSE)

\* C12 amended: the content is that of the first result field that is
\* present and not empty (truthy): the body if a plain string, else .text,
\* else .result, else the stringified .json, else the empty string.
ContentOfFirstNonEmptyField ==
  FlowiseSucceeded =>
    /\ pc = "done"
    /\ result.kind = "response"
    /\ result.value.id \in Ids
    /\ OneAssistantChoice(result.value)
    /\ result.value.choices[1].message.content = FirstField(settled.value, TRUE)

\* C12 witness: a response with .text "ok", .result and .json has given the
\* content "ok".
ContentFromText ==
  /\ FlowiseSucceeded
  /\ Prop(settled.value, Chars("text")) = Str(Chars("ok"))
  /\ Prop(settled.value, Chars("result")) = Str(Chars("r"))
  /\ result.kind = "response"
  /\ result.value.choices[1].message.content = Str(Chars("ok"))

\* The message holds the signature of an HTML document.
HasHtmlSignature(message) ==
  Includes(message, "<!DOCTYPE html>") \/ Includes(message, "<html")

\* The flow engine's call of a flowise request has failed.
FlowiseCallFailed == Dispatched /\ adapter = "flowise" /\ settled.kind = "reject"

\* The message of the error the caller gets: the rejection of
\* sendChatRequest, or of the read of the stream it returned.
CallerError == IF request.stream THEN stream.error ELSE result.message

\* C13 as claimed: an error of the flow engine's call whose message holds an
\* HTML signature reaches the caller as the misconfigured-endpoint
\* diagnostic, streaming or not; any other error reaches it unchanged.
HtmlErrorRewritten ==
  FlowiseCallFailed =>
    /\ IF request.stream THEN stream.state = "errored" ELSE result.kind = "error"
    /\ CallerError = IF HasHtmlSignature(settled.message) THEN MisconfiguredEndpoint
                     ELSE settled.message

(***************************************************************************)
(* The mapping of providers (under Spec)                                   *)
(***************************************************************************)

\* The adapter the claim gives a provider; an unrecognized one as groq.
ClaimedAdapter(p) ==
  IF p = "flowise" THEN "flowise" ELSE IF p = "claude" THEN "claude" ELSE "openai"

\* C14 as claimed: every provider is handled by its one adapter; an
\* unrecognized identifier is handled as groq is: the OpenAI-compatible
\* adapter, groq's URL, groq's credential; and getProviderFromEnv returns a
\* member of the enumeration, groq when the configured value is none of them.
ProviderMapping ==
  /\ getProviderFromEnv(env) \in Providers
  /\ (\A p \in Providers : Chars(p) # ToLowerCase(env["VITE_BACKEND_SERVICE_PROVIDER"]))
       => getProviderFromEnv(env) = "groq"
  /\ (Dispatched /\ adapter # "none") => adapter = ClaimedAdapter(provider)
  /\ (Dispatched /\ provider \notin Providers) =>
       IF getApiKeyForProvider(env, "groq") = ""
       THEN result = Thrown(MissingCredential(provider))
       ELSE /\ adapter = "openai"
            /\ Len(calls) = 1
            /\ calls[1].url = getApiUrlForProvider(env, "groq")
            /\ calls[1].auth.value = "Bearer " \o getApiKeyForProvider(env, "groq")

(***************************************************************************)
(* The flow engine's producer composed with streamChatResponse (SpecFlow)  *)
(***************************************************************************)

\* The data of the token events that have data, in the order of emission.
RECURSIVE TokenData(_)
TokenData(evs) ==
  IF evs = <<>> THEN <<>>
  ELSE (IF Head(evs).event = "token" /\ Head(evs).data # <<>>
        THEN <<Str(Head(evs).data)>> ELSE <<>>) \o TokenData(Tail(evs))

\* C15 as claimed: when the flow engine's events have ended normally and
\* streamChatResponse has read the stream to its end, the fragments yielded
\* are the data of the token events with non-empty data, one fragment per
\* token, in emission order.
ProducerThenNormalizer ==
  (adapter = "flowise" /\ stream.state = "closed" /\ npc = "done")
    => out = TokenData(events)

(***************************************************************************)
(* The line filters of streamChatResponse (under SpecNorm)                 *)
(***************************************************************************)

\* C16 as claimed: a line that starts with `data:` and carries valid JSON
\* with extractable content is not discarded, whatever text its content
\* holds and whether or not a space follows the colon: it yields its content.
DataLinesNeverDiscarded ==
  \A i \in DOMAIN handled :
    LET line == handled[i].line
        parsed == JsonParse(PayloadOf(line))
    IN (StartsWith(line, Chars("data:")) /\ parsed.ok /\ ExtractFragment(parsed.val).yield)
         => handled[i].yielded = <<ExtractFragment(parsed.val).value>>

(***************************************************************************)
(* Specifications                                                          *)
(***************************************************************************)

InitCommon ==
  /\ pc = "idle"
  /\ provider = ""
  /\ request = NoRequest
  /\ adapter = "none"
  /\ calls = <<>>
  /\ result = NoResult
  /\ settled = NotSettled
  /\ stream = NoStream
  /\ events = <<>>
  /\ wire = <<>>
  /\ sent = <<>>
  /\ cuts = 0
  /\ npc = "idle"
  /\ decoder = DecoderInit
  /\ lines = <<>>
  /\ out = <<>>
  /\ handled = <<>>
  /\ reads = <<>>
  /\ doneSeen = FALSE
  /\ doneBefore = FALSE

Init == env \in Envs /\ InitCommon

\* A caller calls sendChatRequest once.
Dispatch ==
  /\ pc = "idle"
  /\ \E p \in ProviderIds, r \in ChatRequests : sendChatRequest(p, r)

Next == Dispatch \/ HttpResponse \/ HttpBody \/ PredictionResponse

\* sendChatRequest for every provider, configuration and request.
Spec == Init /\ [][Next]_vars

\* The streaming request of the runs of one request.
FlowRequest ==
  [messages |-> <<[role |-> "user", content |-> <<"a">>]>>, model |-> "model-1",
   temperature |-> "0.7", stream |-> TRUE]

InitFlow == env = EnvAllSet /\ InitCommon

DispatchFlow ==
  /\ pc = "idle"
  /\ sendChatRequest("flowise", FlowRequest)

NextFlow ==
  \/ DispatchFlow \/ SdkEvent \/ SdkEnds \/ SdkFailure
  \/ GetReader \/ ReadChunk \/ RunLoop \/ ReadDone \/ ReadFails \/ Abandon

\* A streaming flowise request: the stream's producer and streamChatResponse.
SpecFlow == InitFlow /\ [][NextFlow]_vars

\* The state when a streaming request of an HTTP provider has returned
\* response.body: sendChatRequest("groq", FlowRequest) and then fetch's ok
\* response.
InitStream(wires) ==
  /\ env = EnvAllSet
  /\ pc = "done"
  /\ provider = "groq"
  /\ request = FlowRequest
  /\ adapter = "openai"
  /\ calls = sendOpenAICompatibleRequest(getApiUrlForProvider(EnvAllSet, "groq"),
                                         getApiKeyForProvider(EnvAllSet, "groq"),
                                         FlowRequest).calls
  /\ result = ReturnedStream
  /\ settled = [kind |-> "response", status |-> "200", statusText |-> "OK", body |-> TRUE]
  /\ stream = NewStream
  /\ events = <<>>
  /\ wire \in wires
  /\ sent = <<>>
  /\ cuts = 0
  /\ npc = "idle"
  /\ decoder = DecoderInit
  /\ lines = <<>>
  /\ out = <<>>
  /\ handled = <<>>
  /\ reads = <<>>
  /\ doneSeen = FALSE
  /\ doneBefore = FALSE

InitNorm == InitStream(Wires)

NextNorm ==
  \/ NetChunk \/ NetClose \/ NetError
  \/ GetReader \/ ReadChunk \/ RunLoop \/ ReadDone \/ ReadFails \/ Abandon

\* streamChatResponse on the stream of an HTTP provider.
SpecNorm == InitNorm /\ [][NextNorm]_vars

\* streamChatResponse and other code that asks for a reader of the stream.
NextLock ==
  \/ NetChunk \/ NetClose \/ NetError
  \/ GetReader \/ ReadChunk \/ RunLoop \/ ReadDone \/ ReadFails \/ Abandon
  \/ OtherGetReader \/ OtherRelease

\* The streams of the runs with another reader: none, a line that yields a
\* fragment, and that line followed by a second line in the same response.
InitLock ==
  InitStream({Encode(WireText(ls)) :
                ls \in {<<>>,
                        <<Chars("data: {\"choices\":[{\"delta\":{\"content\":\"Hi\"}}]}")>>,
                        <<Chars("data: {\"choices\":[{\"delta\":{\"content\":\"Hi\"}}]}"),
                          Chars("data: not-json")>>}})

SpecLock == InitLock /\ [][NextLock]_vars

=============================================================================
